---- MODULE Spec2Model ----
(***************************************************************************)
(* Model of the vision-analytics core: Engine (core/engine.rs), Pipeline   *)
(* (core/pipeline.rs) and StateManager (core/state.rs).                    *)
(*                                                                         *)
(* The three components are separate objects that share no state, so a     *)
(* behaviour follows one of them: `subject` is chosen in Init and never    *)
(* changes, and only the actions of that component are enabled.            *)
(*                                                                         *)
(* Callers (producers, the consumer, the task calling start/stop) are      *)
(* independent tasks; every await point of the source is a step boundary.  *)
(*                                                                         *)
(* The worker tasks of a pool run the same loop and are interchangeable:   *)
(* a pool is kept as the number of tasks waiting at the loop head, the     *)
(* number that left the loop, and the bags of frames in flight.            *)
(*                                                                         *)
(* Engine worker loop (engine.rs:141): the loop head                       *)
(* `processor.process_frame().await` yielding Option<Frame> is read as the *)
(* receive end of the bounded processing queue created at engine.rs:68.    *)
(*                                                                         *)
(* A behaviour covers the lifetime of the component value: the Engine      *)
(* holds the queue's sender and the result receiver for as long as it      *)
(* lives, so within a behaviour no channel closes and no send fails.       *)
(***************************************************************************)
EXTENDS Integers, Sequences, FiniteSets, Bags, TLC

\* ---- bounds of the model ----
MaxStarts == 2
MaxFrames == 2
MaxRecordedErrors == 102
MaxTicks == 2
MaxObservedErrors == 2
MaxRows == 2
MaxDetectCalls == 2
MaxModels == 3
MaxProcessCalls == 3

MaxBatch == 2

MaxStageCalls == 3

VARIABLES
    subject,            \* which component this behaviour follows
    \* ---- Engine ----
    e_config,           \* EngineConfig
    e_state,            \* Engine.state : EngineState
    processing_queue,   \* bounded mpsc channel of frames (ids)
    result_channel,     \* bounded mpsc channel of ProcessingResult (frame ids)
    e_workers,          \* pool of spawned worker tasks
    e_producers,        \* tasks calling Engine.process_frame
    gpu_cleanups,       \* number of GPUManager.cleanup() calls
    e_clock,            \* logical Utc::now(): one tick per reading
    next_frame_id,      \* next id handed out by the frame source
    e_log,              \* frames whose processing error was logged
    e_dequeued,         \* history: frames in the order workers pulled them
    e_pushed,           \* history: bag of frame ids of the results pushed
    e_delivered,        \* history: bag of frame ids get_result returned
    e_inflight_at_stop, \* history: frames workers held when stop() last ran
    e_ret,              \* the last start/stop call: what it returned, and whether
                        \* it took the early return
    \* ---- Pipeline ----
    p_config,           \* PipelineConfig
    p_state,            \* Pipeline.state : PipelineState
    input_channel,      \* bounded mpsc channel of PipelineData (frame ids)
    output_channel,     \* bounded mpsc channel of PipelineData towards get_result
    p_workers,          \* pool of spawned worker tasks
    p_producer,         \* the task calling Pipeline.process
    p_clock,            \* logical Utc::now() of Pipeline::new / start
    p_next_frame,       \* next frame id handed to Pipeline.process
    p_stops,            \* history: number of stop() calls that cleared is_running
    p_finished,         \* history: items that passed every stage
    p_aborted,          \* history: items whose chain was aborted by a stage error
    p_ret,              \* the last start/stop call, as e_ret
    p_calls,            \* history: bag of the stage.process calls that returned,
                        \* each [frame, stage, ok]
    p_results,          \* history: items get_result returned, in order
    p_data,             \* the worker's local `data` of each item it took
    p_inputs,           \* history: what each stage.process call was given,
                        \* each [frame, stage, input]
    \* ---- StateManager ----
    s_config,           \* StateConfig
    state,              \* StateManager.state : RwLock<SystemState> (the value)
    history,            \* StateManager.history : Vec<StateSnapshot>
    state_lock,         \* who holds the RwLock around `state`
    s_update_pc,        \* where the task inside update_engine_state stands
    s_clock,            \* logical time: timestamps of errors and snapshots
    s_ticks,            \* history: sampler ticks so far
    s_committed,        \* history: `state` as the last finished write left it
    s_sampler,          \* the sampler task: "sleeping" in interval.tick(), or
                        \* "waiting" for state.write() after a tick
    s_read,             \* the value the last get_current_state /
                        \* get_state_history call returned
    \* ---- Detector ----
    d_config,           \* DetectorConfig
    d_outputs,          \* what each model's infer returns for the frame
    d_down,             \* the models whose infer failed outright in the last call
    d_result,           \* what the last detect call returned
    detection_count,    \* Detector.detection_count
    d_calls,            \* history: detect calls so far
    \* ---- Detector::new ----
    n_model_configs,    \* config.model_configs of the call
    n_models,           \* the local `models` of the call
    n_ret,              \* where the call stands: "loading", or what it returned
    n_detector,         \* the Detector value the call produced, if any
    \* ---- Processor ----
    frame_counter,      \* Processor.frame_counter : Mutex<u64> (the value)
    counter_lock,       \* who holds the Mutex around frame_counter
    pr_pc,              \* where each task calling process_frame stands
    pr_frames,          \* history: the frames created, in the order of creation
    pr_calls,           \* history: process_frame calls begun
    \* ---- Detector::detect_batch ----
    b_frames,           \* the frames of the call: what the models' infer
                        \* returns on each
    b_all,              \* the local `all_batch_detections` of the call
    b_ret,              \* where the call stands: "running", or what it returned
    b_result,           \* the Vec the call returned, if it returned Ok
    \* ---- update_metrics (core/pipeline.rs), statement by statement ----
    m_metrics,          \* PipelineState.stage_metrics : name -> StageMetrics
    m_lock,             \* who holds the write guard of the PipelineState
    m_pc,               \* where each worker stands in update_metrics
    m_arg,              \* the (stage_name, success) of each worker's call
    m_local,            \* the counter value each worker's `+= 1` has read
    m_calls,            \* history: stage.process invocations, by stage and outcome
    m_contended         \* history: a worker waited for the guard while another
                        \* worker was updating the same stage's entry

engineVars == <<e_config, e_state, processing_queue, result_channel, e_workers,
                e_producers, gpu_cleanups, e_clock, next_frame_id,
                e_log, e_dequeued, e_pushed, e_delivered, e_inflight_at_stop, e_ret>>

pipelineVars == <<p_config, p_state, input_channel, output_channel, p_workers,
                  p_producer, p_clock, p_next_frame, p_stops, p_finished, p_aborted,
                  p_ret, p_calls, p_results, p_data, p_inputs>>

stateVars == <<s_config, state, history, state_lock, s_update_pc, s_clock, s_ticks,
               s_committed, s_sampler, s_read>>

detectorVars == <<d_config, d_outputs, d_down, d_result, detection_count, d_calls>>

newVars == <<n_model_configs, n_models, n_ret, n_detector>>

processorVars == <<frame_counter, counter_lock, pr_pc, pr_frames, pr_calls>>

batchVars == <<b_frames, b_all, b_ret, b_result>>

metricsVars == <<m_metrics, m_lock, m_pc, m_arg, m_local, m_calls, m_contended>>

notEngine ==
    <<subject, pipelineVars, stateVars, detectorVars, newVars,
      processorVars, batchVars, metricsVars>>

notPipeline ==
    <<subject, engineVars, stateVars, detectorVars, newVars,
      processorVars, batchVars, metricsVars>>

notStateManager ==
    <<subject, engineVars, pipelineVars, detectorVars, newVars,
      processorVars, batchVars, metricsVars>>

notDetector ==
    <<subject, engineVars, pipelineVars, stateVars, newVars,
      processorVars, batchVars, metricsVars>>

notNew ==
    <<subject, engineVars, pipelineVars, stateVars, detectorVars,
      processorVars, batchVars, metricsVars>>

notProcessor ==
    <<subject, engineVars, pipelineVars, stateVars, detectorVars, newVars,
      batchVars, metricsVars>>

notBatch ==
    <<subject, engineVars, pipelineVars, stateVars, newVars, processorVars,
      metricsVars>>

notMetrics ==
    <<subject, engineVars, pipelineVars, stateVars, detectorVars, newVars,
      processorVars, batchVars>>

vars ==
    <<subject, engineVars, pipelineVars, stateVars, detectorVars, newVars,
      processorVars, batchVars, metricsVars>>

Producers == {"p1", "p2"}

SeqToSet(s) == {s[i] : i \in 1..Len(s)}

One(x) == SetToBag({x})

Returned(r) == [ret |-> r, early |-> FALSE]

ReturnedEarly(r) == [ret |-> r, early |-> TRUE]

\* ------------------------------------------------------------------------
\* Bounded mpsc channel (tokio::sync::mpsc::channel(capacity))
\* ------------------------------------------------------------------------
QueueFullNever(q, capacity) == FALSE

QueueFull(q, capacity) == Len(q) >= capacity

\* ------------------------------------------------------------------------
\* Worker pools
\* ------------------------------------------------------------------------
EmptyPool == [recv |-> 0, exited |-> 0, process |-> EmptyBag, send |-> EmptyBag]

\* tasks that have not left their loop (the queue's sender lives as long as the
\* Engine, so the loop ends only by a fault of the loop itself)
LiveWorkers(ws) == ws.recv + BagCardinality(ws.process) + BagCardinality(ws.send)

SpawnedWorkers(ws) == LiveWorkers(ws) + ws.exited

InFlight(ws) == BagToSet(ws.process) \cup BagToSet(ws.send)

\* ------------------------------------------------------------------------
\* Engine
\* ------------------------------------------------------------------------
EngineConfigs ==
    [max_batch_size : {1, 2},
     processing_threads : {1, 2},
     enable_gpu : {TRUE},
     enable_analytics : {TRUE}]

IdleProducer == [pc |-> "idle", frame |-> 0, deq_at_call |-> 0, waited |-> FALSE,
                 ret |-> "None"]

\* EngineConfig::default(), as far as the model keeps it
DefaultEngineConfig ==
    [max_batch_size |-> 1, processing_threads |-> 1, enable_gpu |-> TRUE,
     enable_analytics |-> TRUE]

EngineNew(configs) ==
    /\ e_config \in configs
    /\ e_state = [is_running |-> FALSE, frames_processed |-> 0, error_count |-> 0,
                  last_error |-> "None", start_time |-> 0]
    /\ e_clock = 1
    /\ processing_queue = <<>>
    /\ result_channel = <<>>
    /\ e_workers = EmptyPool
    /\ e_producers = [p \in Producers |-> IdleProducer]
    /\ gpu_cleanups = 0
    /\ next_frame_id = 1
    /\ e_log = {}
    /\ e_dequeued = <<>>
    /\ e_pushed = EmptyBag
    /\ e_delivered = EmptyBag
    /\ e_inflight_at_stop = {}
    /\ e_ret = Returned("Ok")

\* for _ in 0..num_workers { tokio::spawn(worker loop) }
initialize_workers(ws, num_workers) == [ws EXCEPT !.recv = @ + num_workers]

EngineStartUnguarded ==
    /\ e_clock <= MaxStarts
    /\ e_state' = [e_state EXCEPT !.is_running = TRUE, !.start_time = e_clock]
    /\ e_clock' = e_clock + 1
    /\ e_workers' = initialize_workers(e_workers, e_config.processing_threads)
    /\ e_ret' = Returned("Ok")

EngineStartBody ==
    IF e_state.is_running
    THEN /\ e_ret' = ReturnedEarly("Ok")
         /\ UNCHANGED <<e_state, e_clock, e_workers>>
    ELSE /\ e_clock <= MaxStarts
         /\ e_state' = [e_state EXCEPT !.is_running = TRUE, !.start_time = e_clock]
         /\ e_clock' = e_clock + 1
         /\ e_workers' = initialize_workers(e_workers, e_config.processing_threads)
         /\ e_ret' = Returned("Ok")

Engine_start ==
    /\ subject = "Engine"
    /\ UNCHANGED notEngine
    /\ UNCHANGED e_inflight_at_stop
    /\ EngineStartBody
    /\ UNCHANGED <<e_config, processing_queue, result_channel, e_producers, gpu_cleanups, next_frame_id, e_log, e_dequeued, e_pushed,
                   e_delivered>>

EngineStopUnguarded ==
    /\ e_state' = [e_state EXCEPT !.is_running = FALSE]
    /\ gpu_cleanups' = gpu_cleanups + 1
    /\ e_inflight_at_stop' = InFlight(e_workers)
    /\ UNCHANGED <<e_workers, e_log>>
    /\ e_ret' \in {Returned("Ok"), Returned("Err")}

EngineStopCancels ==
    IF ~e_state.is_running
    THEN /\ e_ret' = ReturnedEarly("Ok")
         /\ UNCHANGED <<e_state, gpu_cleanups, e_workers, e_log, e_inflight_at_stop>>
    ELSE /\ e_state' = [e_state EXCEPT !.is_running = FALSE]
         /\ gpu_cleanups' = gpu_cleanups + 1
         /\ e_inflight_at_stop' = InFlight(e_workers)
         /\ e_workers' = [e_workers EXCEPT
                !.recv = @ + BagCardinality(e_workers.process)
                           + BagCardinality(e_workers.send),
                !.process = EmptyBag, !.send = EmptyBag]
         /\ UNCHANGED e_log
         /\ e_ret' \in {Returned("Ok"), Returned("Err")}

\* self.gpu_manager.cleanup().await? may fail after is_running was cleared
EngineStopBody ==
    IF ~e_state.is_running
    THEN /\ e_ret' = ReturnedEarly("Ok")
         /\ UNCHANGED <<e_state, gpu_cleanups, e_workers, e_log, e_inflight_at_stop>>
    ELSE /\ e_state' = [e_state EXCEPT !.is_running = FALSE]
         /\ gpu_cleanups' = gpu_cleanups + 1
         /\ e_inflight_at_stop' = InFlight(e_workers)
         /\ UNCHANGED <<e_workers, e_log>>
         /\ e_ret' \in {Returned("Ok"), Returned("Err")}

Engine_stop ==
    /\ subject = "Engine"
    /\ UNCHANGED notEngine
    /\ EngineStopBody
    /\ UNCHANGED <<e_config, processing_queue, result_channel, e_producers,
                   e_clock, next_frame_id, e_dequeued, e_pushed,
                   e_delivered>>

\* self.processing_queue.send(frame).await : completes at once when the queue has
\* room, otherwise the caller is suspended inside send
Engine_process_frame(p) ==
    /\ subject = "Engine"
    /\ UNCHANGED notEngine
    /\ UNCHANGED e_inflight_at_stop
    /\ e_producers[p].pc = "idle"
    /\ next_frame_id <= MaxFrames
    /\ next_frame_id' = next_frame_id + 1
    /\ IF QueueFull(processing_queue, e_config.max_batch_size)
       THEN /\ e_producers' = [e_producers EXCEPT ![p] =
                   [pc |-> "suspended", frame |-> next_frame_id,
                    deq_at_call |-> Len(e_dequeued), waited |-> TRUE, ret |-> "None"]]
            /\ UNCHANGED processing_queue
       ELSE /\ processing_queue' = Append(processing_queue, next_frame_id)
            /\ e_producers' = [e_producers EXCEPT ![p] =
                   [pc |-> "idle", frame |-> 0, deq_at_call |-> 0,
                    waited |-> FALSE, ret |-> "Ok"]]
    /\ UNCHANGED <<e_config, e_state, result_channel, e_workers, gpu_cleanups, e_clock, e_log, e_dequeued, e_pushed, e_delivered,
                   e_ret>>

\* the suspended send completes once the queue has room
Engine_process_frame_resume(p) ==
    /\ subject = "Engine"
    /\ UNCHANGED notEngine
    /\ UNCHANGED e_inflight_at_stop
    /\ e_producers[p].pc = "suspended"
    /\ ~QueueFull(processing_queue, e_config.max_batch_size)
    /\ processing_queue' = Append(processing_queue, e_producers[p].frame)
    /\ e_producers' = [e_producers EXCEPT ![p] =
                        [pc |-> "idle", frame |-> 0, deq_at_call |-> 0,
                         waited |-> TRUE, ret |-> "Ok"]]
    /\ UNCHANGED <<e_config, e_state, result_channel, e_workers, gpu_cleanups, e_clock, next_frame_id, e_log, e_dequeued, e_pushed,
                   e_delivered, e_ret>>

\* self.result_channel.recv().await
Engine_get_result ==
    /\ subject = "Engine"
    /\ UNCHANGED notEngine
    /\ UNCHANGED e_inflight_at_stop
    /\ result_channel /= <<>>
    /\ e_delivered' = e_delivered (+) One(Head(result_channel))
    /\ result_channel' = Tail(result_channel)
    /\ UNCHANGED <<e_config, e_state, processing_queue, e_workers, e_producers,
                   gpu_cleanups, e_clock, next_frame_id, e_log, e_dequeued,
                   e_pushed, e_ret>>

EngineMetricsOf(st) ==
    [frames_processed |-> st.frames_processed, error_count |-> st.error_count,
     is_running |-> st.is_running]

Engine_get_metrics == EngineMetricsOf(e_state)

\* ---- worker task (engine.rs:140-146) ----
\* what <recv> leaves in the queue: the frame handed to the worker is removed
AfterRecvKeepsFrame(q) == q

AfterRecv(q) == Tail(q)

\* recv() hands out the oldest buffered message
ReceivedNewest(q) == q[Len(q)]

Received(q) == Head(q)

\* while let Some(frame) = <recv> : a frame is buffered
Engine_worker_recv ==
    /\ subject = "Engine"
    /\ UNCHANGED notEngine
    /\ UNCHANGED e_inflight_at_stop
    /\ e_workers.recv > 0
    /\ processing_queue /= <<>>
    /\ e_workers' = [e_workers EXCEPT !.recv = @ - 1,
                                      !.process = @ (+) One(Received(processing_queue))]
    /\ processing_queue' = AfterRecv(processing_queue)
    /\ e_dequeued' = Append(e_dequeued, Received(processing_queue))
    /\ UNCHANGED <<e_config, e_state, result_channel, e_producers, gpu_cleanups, e_clock, next_frame_id, e_log, e_pushed, e_delivered,
                   e_ret>>

\* if let Err(e) = processor.process_frame(frame).await { log::error!(..) }
\* the pool after the worker holding frame f (at `stage`) got a processor error:
\* the worker is back at the loop head
WorkersAfterErrorExit(ws, f, stage) ==
    [ws EXCEPT ![stage] = @ (-) One(f), !.exited = @ + 1]

WorkersAfterError(ws, f, stage) ==
    [ws EXCEPT ![stage] = @ (-) One(f), !.recv = @ + 1]

\* the effect of a processor error on the Engine: the error is logged, the
\* EngineState is not touched
EngineOnProcessorError(f, stage) ==
    /\ e_log' = e_log \cup {f}
    /\ e_workers' = WorkersAfterError(e_workers, f, stage)
    /\ UNCHANGED e_state

\* detect_objects(..)? or analyze_frame(..)? fails
Engine_worker_process_err(f) ==
    /\ subject = "Engine"
    /\ UNCHANGED notEngine
    /\ UNCHANGED e_inflight_at_stop
    /\ BagIn(f, e_workers.process)
    /\ e_config.enable_gpu \/ e_config.enable_analytics
    /\ EngineOnProcessorError(f, "process")
    /\ UNCHANGED <<e_config, processing_queue, result_channel, e_producers, gpu_cleanups, e_clock, next_frame_id, e_dequeued, e_pushed,
                   e_delivered, e_ret>>

\* detections and analysis computed; the result is built (engine.rs:208-214)
Engine_worker_process_ok(f) ==
    /\ subject = "Engine"
    /\ UNCHANGED notEngine
    /\ UNCHANGED e_inflight_at_stop
    /\ BagIn(f, e_workers.process)
    /\ e_workers' = [e_workers EXCEPT !.process = @ (-) One(f),
                                      !.send = @ (+) One(f)]
    /\ UNCHANGED <<e_config, e_state, processing_queue, result_channel, e_producers,
                   gpu_cleanups, e_clock, next_frame_id, e_log, e_dequeued,
                   e_pushed, e_delivered, e_ret>>

\* the pool after the worker holding frame f sent its result: process_frame
\* returns Ok(result) and the worker is back at the loop head
WorkersAfterSendExit(ws, f) ==
    [ws EXCEPT !.send = @ (-) One(f), !.exited = @ + 1]

WorkersAfterSend(ws, f) ==
    [ws EXCEPT !.send = @ (-) One(f), !.recv = @ + 1]

\* self.result_sender.send(result).await completes; Ok(result) is discarded by
\* the worker
Engine_worker_send(f) ==
    /\ subject = "Engine"
    /\ UNCHANGED notEngine
    /\ UNCHANGED e_inflight_at_stop
    /\ BagIn(f, e_workers.send)
    /\ ~QueueFull(result_channel, e_config.max_batch_size)
    /\ result_channel' = Append(result_channel, f)
    /\ e_pushed' = e_pushed (+) One(f)
    /\ e_workers' = WorkersAfterSend(e_workers, f)
    /\ UNCHANGED <<e_config, e_state, processing_queue, e_producers, gpu_cleanups, e_clock, next_frame_id, e_log, e_dequeued,
                   e_delivered, e_ret>>

\* ------------------------------------------------------------------------
\* Pipeline
\* ------------------------------------------------------------------------
Stage(n, t, e) == [name |-> n, stage_type |-> t, enabled |-> e]

PipelineConfigs ==
    [stages : {<<Stage("pre", "PreProcess", e1), Stage("det", "Detection", e2)>> :
                  e1 \in BOOLEAN, e2 \in BOOLEAN}
              \cup {<<Stage("det", "Detection", TRUE),
                      Stage("pre", "PreProcess", TRUE)>>},
     max_parallel_stages : {1, 2},
     buffer_size : {1},
     retry_count : {2}]

EmptyStagePool == [recv |-> 0, busy |-> EmptyBag]

\* PipelineData as Pipeline::process builds it; a PipelineData is kept as the
\* names of the stages that changed it, in order
InitialData == <<>>

\* what a stage's process returns on success: PreProcessStage returns its
\* input; the other stages' output is their input with their own work added
StageOutput(stage, input) ==
    IF stage.stage_type = "PreProcess" THEN input ELSE Append(input, stage.name)

\* Ok(processed_data) => { data = processed_data; .. }
DataKept(data, processed_data) == data

DataAfterStage(data, processed_data) == processed_data

PipelineLiveWorkers(ws) == ws.recv + BagCardinality(ws.busy)

PipelineNew(configs) ==
    /\ p_config \in configs
    /\ p_state = [is_running |-> FALSE, processed_frames |-> 0, errors |-> 0,
                  stage_metrics |-> <<>>, start_time |-> 0]
    /\ p_clock = 1
    /\ input_channel = <<>>
    /\ output_channel = <<>>
    /\ p_workers = EmptyStagePool
    /\ p_producer = [pc |-> "idle", frame |-> 0, ret |-> "None"]
    /\ p_next_frame = 1
    /\ p_stops = 0
    /\ p_finished = {}
    /\ p_aborted = {}
    /\ p_ret = Returned("Ok")
    /\ p_calls = EmptyBag
    /\ p_results = <<>>
    /\ p_data = [f \in 1..MaxFrames |-> InitialData]
    /\ p_inputs = {}

\* for i in 0..max_parallel { tokio::spawn(worker loop) }
spawn_workers(ws, max_parallel) == [ws EXCEPT !.recv = @ + max_parallel]

PipelineStartUnguarded ==
    /\ p_clock <= MaxStarts
    /\ p_state' = [p_state EXCEPT !.is_running = TRUE, !.start_time = p_clock]
    /\ p_clock' = p_clock + 1
    /\ p_workers' = spawn_workers(p_workers, p_config.max_parallel_stages)
    /\ p_ret' = Returned("Ok")

PipelineStartBody ==
    IF p_state.is_running
    THEN /\ p_ret' = ReturnedEarly("Ok")
         /\ UNCHANGED <<p_state, p_clock, p_workers>>
    ELSE /\ p_clock <= MaxStarts
         /\ p_state' = [p_state EXCEPT !.is_running = TRUE, !.start_time = p_clock]
         /\ p_clock' = p_clock + 1
         /\ p_workers' = spawn_workers(p_workers, p_config.max_parallel_stages)
         /\ p_ret' = Returned("Ok")

Pipeline_start ==
    /\ subject = "Pipeline"
    /\ UNCHANGED notPipeline
    /\ PipelineStartBody
    /\ UNCHANGED <<p_config, input_channel, output_channel, p_producer, p_next_frame,
                   p_stops, p_finished, p_aborted, p_calls, p_results,
                   p_data, p_inputs>>

PipelineStopUnguarded ==
    /\ p_state' = [p_state EXCEPT !.is_running = FALSE]
    /\ p_stops' = p_stops + 1
    /\ p_ret' = Returned("Ok")

PipelineStopBody ==
    IF ~p_state.is_running
    THEN /\ p_ret' = ReturnedEarly("Ok")
         /\ UNCHANGED <<p_state, p_stops>>
    ELSE /\ p_state' = [p_state EXCEPT !.is_running = FALSE]
         /\ p_stops' = p_stops + 1
         /\ p_ret' = Returned("Ok")

Pipeline_stop ==
    /\ subject = "Pipeline"
    /\ UNCHANGED notPipeline
    /\ PipelineStopBody
    /\ UNCHANGED <<p_config, input_channel, output_channel, p_workers, p_producer,
                   p_clock, p_next_frame, p_finished, p_aborted, p_calls, p_results,
                   p_data, p_inputs>>

\* self.input_channel.send(data).await
Pipeline_process ==
    /\ subject = "Pipeline"
    /\ UNCHANGED notPipeline
    /\ p_producer.pc = "idle"
    /\ p_next_frame <= MaxFrames
    /\ p_next_frame' = p_next_frame + 1
    /\ IF QueueFull(input_channel, p_config.buffer_size)
       THEN /\ p_producer' = [pc |-> "suspended", frame |-> p_next_frame,
                              ret |-> "None"]
            /\ UNCHANGED input_channel
       ELSE /\ input_channel' = Append(input_channel, p_next_frame)
            /\ p_producer' = [pc |-> "idle", frame |-> 0, ret |-> "Ok"]
    /\ UNCHANGED <<p_config, p_state, output_channel, p_workers, p_clock, p_stops,
                   p_finished, p_aborted, p_ret, p_calls,
                   p_results, p_data, p_inputs>>

Pipeline_process_resume ==
    /\ subject = "Pipeline"
    /\ UNCHANGED notPipeline
    /\ p_producer.pc = "suspended"
    /\ ~QueueFull(input_channel, p_config.buffer_size)
    /\ input_channel' = Append(input_channel, p_producer.frame)
    /\ p_producer' = [pc |-> "idle", frame |-> 0, ret |-> "Ok"]
    /\ UNCHANGED <<p_config, p_state, output_channel, p_workers, p_clock,
                   p_next_frame, p_stops, p_finished, p_aborted, p_ret, p_calls,
                   p_results, p_data, p_inputs>>

\* while let Ok(mut data) = <recv> : the worker starts the chain at stage 1
Pipeline_worker_recv ==
    /\ subject = "Pipeline"
    /\ UNCHANGED notPipeline
    /\ p_workers.recv > 0
    /\ input_channel /= <<>>
    /\ p_workers' = [p_workers EXCEPT
           !.recv = @ - 1,
           !.busy = @ (+) One([frame |-> Received(input_channel), stage |-> 1])]
    /\ input_channel' = Tail(input_channel)
    /\ UNCHANGED <<p_config, p_state, output_channel, p_producer, p_clock,
                   p_next_frame, p_stops, p_finished, p_aborted, p_ret, p_calls,
                   p_results, p_data, p_inputs>>

\* update_metrics: under the write lock, entry(stage_name).or_insert(zeroes),
\* then processed += 1 or errors += 1
update_metrics(metrics, stage_name, success) ==
    LET old == IF \E i \in 1..Len(metrics) : metrics[i].name = stage_name
               THEN metrics
               ELSE Append(metrics, [name |-> stage_name, processed |-> 0,
                                     errors |-> 0])
    IN  [i \in 1..Len(old) |->
            IF old[i].name = stage_name
            THEN IF success
                 THEN [old[i] EXCEPT !.processed = @ + 1]
                 ELSE [old[i] EXCEPT !.errors = @ + 1]
            ELSE old[i]]

\* the stage implementations other than PreProcessStage (which returns Ok(input))
\* are outside the repository's sources: their process may fail
StageMayFail(stage) == stage.stage_type /= "PreProcess"

\* Ok(processed_data) => { data = processed_data; update_metrics(.., true) }
Pipeline_worker_stage_ok(item) ==
    /\ subject = "Pipeline"
    /\ UNCHANGED notPipeline
    /\ BagIn(item, p_workers.busy)
    /\ LET stage == p_config.stages[item.stage]
           last == item.stage = Len(p_config.stages)
       IN  /\ p_state' = [p_state EXCEPT !.stage_metrics =
                              update_metrics(@, stage.name, TRUE)]
           /\ IF last
              THEN /\ p_workers' = [p_workers EXCEPT !.busy = @ (-) One(item),
                                                     !.recv = @ + 1]
                   /\ p_finished' = p_finished \cup {item.frame}
              ELSE /\ p_workers' = [p_workers EXCEPT !.busy =
                          (@ (-) One(item)) (+) One([item EXCEPT !.stage = @ + 1])]
                   /\ UNCHANGED p_finished
    /\ p_calls' = p_calls (+) One([frame |-> item.frame, stage |-> item.stage,
                                   ok |-> TRUE])
    /\ p_inputs' = p_inputs \cup {[frame |-> item.frame, stage |-> item.stage,
                                    input |-> p_data[item.frame]]}
    /\ p_data' = [p_data EXCEPT ![item.frame] =
                      DataAfterStage(@, StageOutput(p_config.stages[item.stage], @))]
    /\ UNCHANGED <<p_config, input_channel, output_channel, p_producer, p_clock,
                   p_next_frame, p_stops, p_aborted, p_ret, p_results>>

\* the Err arm leaving the worker task instead of the stage loop
AfterStageErrorExit(ws, item) == [ws EXCEPT !.busy = @ (-) One(item)]

\* break: out of the stage loop, back to the recv of the while loop
AfterStageError(ws, item) ==
    [ws EXCEPT !.busy = @ (-) One(item), !.recv = @ + 1]

\* Err(e) => { log; update_metrics(.., false); break }
Pipeline_worker_stage_err(item) ==
    /\ subject = "Pipeline"
    /\ UNCHANGED notPipeline
    /\ BagIn(item, p_workers.busy)
    /\ StageMayFail(p_config.stages[item.stage])
    /\ p_state' = [p_state EXCEPT !.stage_metrics =
                      update_metrics(@, p_config.stages[item.stage].name, FALSE)]
    /\ p_workers' = AfterStageError(p_workers, item)
    /\ p_aborted' = p_aborted \cup {item.frame}
    /\ p_calls' = p_calls (+) One([frame |-> item.frame, stage |-> item.stage,
                                   ok |-> FALSE])
    /\ p_inputs' = p_inputs \cup {[frame |-> item.frame, stage |-> item.stage,
                                    input |-> p_data[item.frame]]}
    /\ UNCHANGED p_data
    /\ UNCHANGED <<p_config, input_channel, output_channel, p_producer, p_clock,
                   p_next_frame, p_stops, p_finished, p_ret, p_results>>

\* self.output_channel.recv().await. Pipeline::new keeps output_rx and lets
\* output_tx go at its end: the channel is closed, and recv() on a closed,
\* empty channel returns None at once.
Pipeline_get_result ==
    /\ subject = "Pipeline"
    /\ UNCHANGED notPipeline
    /\ IF output_channel /= <<>>
       THEN /\ p_results' = Append(p_results, Head(output_channel))
            /\ output_channel' = Tail(output_channel)
       ELSE UNCHANGED <<p_results, output_channel>>
    /\ UNCHANGED <<p_config, p_state, input_channel, p_workers, p_producer, p_clock,
                   p_next_frame, p_stops, p_finished, p_aborted, p_ret, p_calls,
                   p_data, p_inputs>>

\* ------------------------------------------------------------------------
\* update_metrics (core/pipeline.rs), one step per statement, by the worker
\* tasks of one Pipeline
\* ------------------------------------------------------------------------
MetricsWorkers == {"w1", "w2"}

StageNames == {"pre", "det"}

NoMetrics == [n \in {} |-> 0]

NoArg == [stage_name |-> "", success |-> TRUE]

MetricsNew ==
    /\ m_metrics = NoMetrics
    /\ m_lock = "free"
    /\ m_pc = [w \in MetricsWorkers |-> "idle"]
    /\ m_arg = [w \in MetricsWorkers |-> NoArg]
    /\ m_local = [w \in MetricsWorkers |-> 0]
    /\ m_calls = [c \in StageNames \X BOOLEAN |-> 0]
    /\ m_contended = FALSE

TotalStageCalls == m_calls[<<"pre", TRUE>>] + m_calls[<<"pre", FALSE>>]
                      + m_calls[<<"det", TRUE>>] + m_calls[<<"det", FALSE>>]

\* a worker is inside update_metrics with the guard while another waits for
\* it with an update of the same stage
Contended ==
    \E w, v \in MetricsWorkers :
        /\ m_pc[w] \in {"entry", "add"}
        /\ m_pc[v] = "write"
        /\ m_arg[w].stage_name = m_arg[v].stage_name

\* state.write().await resolves when no guard of the RwLock is out
StateWriteFreeAlways == TRUE

StateWriteFree == m_lock = "free"

\* the counter of a StageMetrics that update_metrics adds to
CounterOf(arg) == IF arg.success THEN "processed" ELSE "errors"

\* stage.process(data.clone()).await returned Ok or Err: the worker calls
\* update_metrics(&state, &stage.name(), true / false)
Metrics_stage_process(w, stage_name, success) ==
    /\ subject = "Metrics"
    /\ UNCHANGED notMetrics
    /\ m_pc[w] = "idle"
    /\ TotalStageCalls < MaxStageCalls
    /\ m_calls' = [m_calls EXCEPT ![<<stage_name, success>>] = @ + 1]
    /\ m_arg' = [m_arg EXCEPT ![w] = [stage_name |-> stage_name, success |-> success]]
    /\ m_pc' = [m_pc EXCEPT ![w] = "write"]
    /\ UNCHANGED <<m_metrics, m_lock, m_local>>
    /\ m_contended' = (m_contended \/ Contended')

\* let mut state = state.write().await;
Metrics_write_lock(w) ==
    /\ subject = "Metrics"
    /\ UNCHANGED notMetrics
    /\ m_pc[w] = "write"
    /\ StateWriteFree
    /\ m_lock' = w
    /\ m_pc' = [m_pc EXCEPT ![w] = "entry"]
    /\ UNCHANGED <<m_metrics, m_arg, m_local, m_calls>>
    /\ m_contended' = (m_contended \/ Contended')

\* state.stage_metrics.entry(stage_name).or_insert_with(zeroes); the `+= 1`
\* reads the counter
Metrics_entry(w) ==
    /\ subject = "Metrics"
    /\ UNCHANGED notMetrics
    /\ m_pc[w] = "entry"
    /\ LET name == m_arg[w].stage_name
           entries == IF name \in DOMAIN m_metrics
                      THEN m_metrics
                      ELSE [n \in DOMAIN m_metrics \cup {name} |->
                               IF n = name THEN [processed |-> 0, errors |-> 0]
                               ELSE m_metrics[n]]
       IN  /\ m_metrics' = entries
           /\ m_local' = [m_local EXCEPT ![w] = entries[name][CounterOf(m_arg[w])]]
    /\ m_pc' = [m_pc EXCEPT ![w] = "add"]
    /\ UNCHANGED <<m_lock, m_arg, m_calls>>
    /\ m_contended' = (m_contended \/ Contended')

\* metrics.processed += 1 or metrics.errors += 1 stores the sum; the guard is
\* dropped at the end of update_metrics
Metrics_add(w) ==
    /\ subject = "Metrics"
    /\ UNCHANGED notMetrics
    /\ m_pc[w] = "add"
    /\ m_metrics' = [m_metrics EXCEPT
           ![m_arg[w].stage_name][CounterOf(m_arg[w])] = m_local[w] + 1]
    /\ m_lock' = "free"
    /\ m_pc' = [m_pc EXCEPT ![w] = "idle"]
    /\ UNCHANGED <<m_arg, m_local, m_calls>>
    /\ m_contended' = (m_contended \/ Contended')

\* ------------------------------------------------------------------------
\* StateManager
\* ------------------------------------------------------------------------
\* if system_state.error_state.error_history.len() > 100
ErrorHistoryCap == 100

StateConfigs ==
    [history_size : {0, 1, 2},
     snapshot_interval : {5},
     persist_state : BOOLEAN]

\* the values callers pass to the update_* calls
EngineStateInputs ==
    [status : {"Running", "Stopped"}, frames_processed : {0}, uptime : {0}]

PipelineStateInputs == [queue_size : {0, 1}]

ResourceStateInputs == [gpu_usage : {1}]

\* get_gpu_usage() .. get_temperature() all return 0.0
SampledResourceState == [gpu_usage |-> 0]

StateManagerNew(configs) ==
    /\ s_config \in configs
    /\ state = [engine_state |-> [status |-> "Stopped", frames_processed |-> 0,
                                  uptime |-> 0],
                pipeline_state |-> [queue_size |-> 0],
                resource_state |-> [gpu_usage |-> 0],
                error_state |-> [error_count |-> 0, last_error |-> "None",
                                 error_history |-> <<>>]]
    /\ history = <<>>
    /\ state_lock = "free"
    /\ s_update_pc = "idle"
    /\ s_clock = 1
    /\ s_ticks = 0
    /\ s_committed = state
    /\ s_sampler = "sleeping"
    /\ s_read = [kind |-> "none"]

\* tokio::sync::RwLock: write() needs the lock free; read() needs it not held
\* for writing, also when the writer is the task that asks
RwLockWriteAvailable(lock) == lock = "free"

\* a read() that does not wait for the writer
RwLockReadAlways(lock) == TRUE

RwLockReadAvailable(lock) == lock /= "write"

\* while history.len() > self.config.history_size { history.remove(0); }
RECURSIVE TrimHistory(_, _)
TrimHistory(hist, size) ==
    IF Len(hist) > size THEN TrimHistory(Tail(hist), size) ELSE hist

\* take_snapshot past its state.read(): clone, timestamp, push, trim
take_snapshot(hist, st, now, size) ==
    TrimHistory(Append(hist, [timestamp |-> now, state |-> st]), size)

\* update_engine_state with the snapshot pushed through the guard it already
\* holds and the trim loop left out
UpdateEngineStateInlineNoTrim(es) ==
    /\ state' = [state EXCEPT !.engine_state = es]
    /\ history' = Append(history, [timestamp |-> s_clock, state |-> state'])
    /\ s_clock' = s_clock + 1
    /\ UNCHANGED <<state_lock, s_update_pc>>

\* update_engine_state: the write guard lives to the end of the function, so
\* take_snapshot asks for state.read() while its caller holds state.write()
UpdateEngineStateBody(es) ==
    /\ state' = [state EXCEPT !.engine_state = es]
    /\ IF RwLockReadAvailable("write")
       THEN /\ history' = take_snapshot(history, state', s_clock,
                                        s_config.history_size)
            /\ s_clock' = s_clock + 1
            /\ UNCHANGED <<state_lock, s_update_pc>>
       ELSE /\ state_lock' = "write"
            /\ s_update_pc' = "take_snapshot"
            /\ UNCHANGED <<history, s_clock>>

State_update_engine_state(es) ==
    /\ subject = "StateManager"
    /\ UNCHANGED notStateManager
    /\ UNCHANGED s_sampler
    /\ RwLockWriteAvailable(state_lock)
    /\ UpdateEngineStateBody(es)
    /\ s_committed' = IF state_lock' = "free" THEN state' ELSE s_committed
    /\ UNCHANGED <<s_config, s_ticks, s_read>>

\* system_state.pipeline_state = state
WithPipelineStateAndSample(st, ps) ==
    [st EXCEPT !.pipeline_state = ps, !.resource_state = SampledResourceState]

WithPipelineState(st, ps) == [st EXCEPT !.pipeline_state = ps]

State_update_pipeline_state(ps) ==
    /\ subject = "StateManager"
    /\ UNCHANGED notStateManager
    /\ UNCHANGED s_sampler
    /\ RwLockWriteAvailable(state_lock)
    /\ state' = WithPipelineState(state, ps)
    /\ s_committed' = state'
    /\ UNCHANGED <<s_config, history, state_lock, s_update_pc, s_clock, s_ticks,
                   s_read>>

State_update_resource_state(rs) ==
    /\ subject = "StateManager"
    /\ UNCHANGED notStateManager
    /\ UNCHANGED s_sampler
    /\ RwLockWriteAvailable(state_lock)
    /\ state' = [state EXCEPT !.resource_state = rs]
    /\ s_committed' = state'
    /\ UNCHANGED <<s_config, history, state_lock, s_update_pc, s_clock, s_ticks,
                   s_read>>

\* error_history.push(error); if len > 100 { remove(0) }
PushErrorDropNewest(eh, error) ==
    LET pushed == Append(eh, error)
    IN  IF Len(pushed) > ErrorHistoryCap
        THEN SubSeq(pushed, 1, Len(pushed) - 1)
        ELSE pushed

PushError(eh, error) ==
    LET pushed == Append(eh, error)
    IN  IF Len(pushed) > ErrorHistoryCap THEN Tail(pushed) ELSE pushed

\* record_error without error_count += 1
RecordErrorNoCount(es, error) ==
    [error_count |-> es.error_count,
     last_error |-> error,
     error_history |-> PushError(es.error_history, error)]

record_error(es, error) ==
    [error_count |-> es.error_count + 1,
     last_error |-> error,
     error_history |-> PushError(es.error_history, error)]

\* the error passed in is stamped with the time of the call
State_record_error ==
    /\ subject = "StateManager"
    /\ UNCHANGED notStateManager
    /\ UNCHANGED s_sampler
    /\ RwLockWriteAvailable(state_lock)
    /\ s_clock <= MaxRecordedErrors
    /\ state' = [state EXCEPT !.error_state =
                    record_error(@, [timestamp |-> s_clock, error_type |-> "e"])]
    /\ s_clock' = s_clock + 1
    /\ s_committed' = state'
    /\ UNCHANGED <<s_config, history, state_lock, s_update_pc, s_ticks, s_read>>

\* start_monitoring: one turn of the sampler loop
State_monitor_tick ==
    /\ subject = "StateManager"
    /\ UNCHANGED notStateManager
    /\ UNCHANGED s_sampler
    /\ RwLockWriteAvailable(state_lock)
    /\ s_ticks < MaxTicks
    /\ s_ticks' = s_ticks + 1
    /\ state' = [state EXCEPT
           !.resource_state = SampledResourceState,
           !.engine_state.uptime =
               IF state.engine_state.status = "Running"
               THEN @ + s_config.snapshot_interval
               ELSE @]
    /\ s_committed' = state'
    /\ UNCHANGED <<s_config, history, state_lock, s_update_pc, s_clock, s_read>>

\* interval.tick().await returns: the sampler goes on to state.write().await
State_monitor_wake ==
    /\ subject = "StateManager"
    /\ UNCHANGED notStateManager
    /\ s_sampler = "sleeping"
    /\ s_ticks < MaxTicks
    /\ s_ticks' = s_ticks + 1
    /\ s_sampler' = "waiting"
    /\ UNCHANGED <<s_config, state, history, state_lock, s_update_pc, s_clock,
                   s_committed, s_read>>

\* the sampler got state.write(): the loop body, to the drop of the guard
State_monitor_run ==
    /\ subject = "StateManager"
    /\ UNCHANGED notStateManager
    /\ s_sampler = "waiting"
    /\ RwLockWriteAvailable(state_lock)
    /\ s_sampler' = "sleeping"
    /\ state' = [state EXCEPT
           !.resource_state = SampledResourceState,
           !.engine_state.uptime =
               IF state.engine_state.status = "Running"
               THEN @ + s_config.snapshot_interval
               ELSE @]
    /\ s_committed' = state'
    /\ UNCHANGED <<s_config, history, state_lock, s_update_pc, s_clock, s_ticks,
                   s_read>>

get_current_state == state

get_state_history == history

\* ------------------------------------------------------------------------
\* StateManager, statement by statement: the writers that change more than
\* one field, one step per assignment, and the readers beside them
\* ------------------------------------------------------------------------
\* record_error: state.write(); error_count += 1; last_error = Some(error)
State_record_error_begin ==
    /\ subject = "StateManager"
    /\ UNCHANGED notStateManager
    /\ UNCHANGED s_sampler
    /\ RwLockWriteAvailable(state_lock)
    /\ s_clock <= MaxObservedErrors
    /\ state_lock' = "write"
    /\ s_update_pc' = "record_error_push"
    /\ state' = [state EXCEPT
           !.error_state.error_count = @ + 1,
           !.error_state.last_error = [timestamp |-> s_clock, error_type |-> "e"]]
    /\ s_clock' = s_clock + 1
    /\ UNCHANGED <<s_config, history, s_ticks, s_committed, s_read>>

\* record_error: error_history.push(error)
State_record_error_push ==
    /\ subject = "StateManager"
    /\ UNCHANGED notStateManager
    /\ UNCHANGED s_sampler
    /\ s_update_pc = "record_error_push"
    /\ s_update_pc' = "record_error_trim"
    /\ state' = [state EXCEPT !.error_state.error_history =
                                 Append(@, state.error_state.last_error)]
    /\ UNCHANGED <<s_config, history, state_lock, s_clock, s_ticks, s_committed,
                   s_read>>

\* record_error: if error_history.len() > 100 { remove(0) }; Ok(()) drops the
\* guard
State_record_error_trim ==
    /\ subject = "StateManager"
    /\ UNCHANGED notStateManager
    /\ UNCHANGED s_sampler
    /\ s_update_pc = "record_error_trim"
    /\ s_update_pc' = "idle"
    /\ state_lock' = "free"
    /\ state' = [state EXCEPT !.error_state.error_history =
                                 IF Len(@) > ErrorHistoryCap THEN Tail(@) ELSE @]
    /\ s_committed' = state'
    /\ UNCHANGED <<s_config, history, s_clock, s_ticks, s_read>>

\* sampler loop: tick; state.write(); resource_state = ResourceState {..}
State_monitor_sample ==
    /\ subject = "StateManager"
    /\ UNCHANGED notStateManager
    /\ UNCHANGED s_sampler
    /\ RwLockWriteAvailable(state_lock)
    /\ s_ticks < MaxTicks
    /\ s_ticks' = s_ticks + 1
    /\ state_lock' = "write"
    /\ s_update_pc' = "monitor_uptime"
    /\ state' = [state EXCEPT !.resource_state = SampledResourceState]
    /\ UNCHANGED <<s_config, history, s_clock, s_committed, s_read>>

\* sampler loop: if status == Running { uptime += snapshot_interval }; the
\* guard drops at the end of the loop body
State_monitor_uptime ==
    /\ subject = "StateManager"
    /\ UNCHANGED notStateManager
    /\ UNCHANGED s_sampler
    /\ s_update_pc = "monitor_uptime"
    /\ s_update_pc' = "idle"
    /\ state_lock' = "free"
    /\ state' = [state EXCEPT !.engine_state.uptime =
                     IF state.engine_state.status = "Running"
                     THEN @ + s_config.snapshot_interval
                     ELSE @]
    /\ s_committed' = state'
    /\ UNCHANGED <<s_config, history, s_clock, s_ticks, s_read>>

\* Ok(self.state.read().await.clone())
State_get_current_state ==
    /\ subject = "StateManager"
    /\ UNCHANGED notStateManager
    /\ UNCHANGED s_sampler
    /\ RwLockReadAvailable(state_lock)
    /\ s_read' = [kind |-> "state", value |-> get_current_state]
    /\ UNCHANGED <<s_config, state, history, state_lock, s_update_pc, s_clock,
                   s_ticks, s_committed>>

\* Ok(self.history.read().await.clone()): the history has a lock of its own,
\* taken for writing by take_snapshot alone
State_get_state_history ==
    /\ subject = "StateManager"
    /\ UNCHANGED notStateManager
    /\ UNCHANGED s_sampler
    /\ s_read' = [kind |-> "history", value |-> get_state_history]
    /\ UNCHANGED <<s_config, state, history, state_lock, s_update_pc, s_clock,
                   s_ticks, s_committed>>

\* ------------------------------------------------------------------------
\* Detector (vision/detector.rs)
\* ------------------------------------------------------------------------
\* Confidences are small integers and a threshold on IoU is a fraction
\* num/den, so that every comparison is exact.
Rect(x, y, w, h) == [x |-> x, y |-> y, width |-> w, height |-> h]

\* boxes on a small grid: IoU(BoxA, BoxC) = 1/2, IoU(BoxA, BoxB) = 1/3,
\* IoU(BoxB, BoxC) = 0
BoxA == Rect(0, 0, 2, 1)

BoxB == Rect(1, 0, 2, 1)

BoxC == Rect(0, 0, 1, 1)

Boxes == {BoxA, BoxB, BoxC}

\* one row of a model's output: [x, y, w, h, objectness, class_id]
OutputRows == [bbox : Boxes, confidence : 1..4, class_id : {0, 1}]

\* a pair of boxes with IoU 4/5
BoxD == Rect(0, 0, 4, 1)

BoxE == Rect(0, 0, 5, 1)

\* two rows on BoxD and BoxE, the higher confidence on either
OverlappingPairs ==
    {<<[bbox |-> b[1], confidence |-> c[1], class_id |-> k[1]],
       [bbox |-> b[2], confidence |-> c[2], class_id |-> k[2]]>> :
        b \in {<<BoxD, BoxE>>, <<BoxE, BoxD>>},
        c \in {<<4, 3>>, <<3, 4>>},
        k \in {<<0, 0>>, <<0, 1>>, <<1, 0>>}}

RowSeqs == UNION {[1..n -> OutputRows] : n \in 0..MaxRows} \cup OverlappingPairs

\* what model.infer returned for one model: the rows, or an error
Inferred(rows) == [ok |-> TRUE, rows |-> rows]

InferenceFailed == [ok |-> FALSE, rows |-> <<>>]

\* the outputs of zero, one or two models holding the rows `flat` between them
ModelOutputs(flat) ==
    LET n == Len(flat)
    IN  {<<Inferred(flat)>>}
          \cup {<<Inferred(SubSeq(flat, 1, k)), Inferred(SubSeq(flat, k + 1, n))>> :
                   k \in 0..n}
          \cup {<<InferenceFailed, Inferred(flat)>>,
                <<Inferred(flat), InferenceFailed>>}
          \cup (IF n = 0
                THEN {<<>>, <<InferenceFailed>>, <<InferenceFailed, InferenceFailed>>}
                ELSE {})

\* DetectorConfig: nms_threshold 1/2 or 2/5; the first model knows one class
\* name (class_id 0 resolves and class_id 1 does not) or two
DetectorConfigs ==
    [confidence_threshold : {2},
     nms_threshold : {[num |-> 1, den |-> 2], [num |-> 2, den |-> 5]},
     class_names : {<<"person">>, <<"person", "car">>}]

\* if confidence > self.config.confidence_threshold (process_outputs), and the
\* score_threshold test of dnn::nms_boxes, which is given the same threshold
ScoreAny(score, threshold) == TRUE

ScoreAbove(score, threshold) == score > threshold

\* get_class_name: model_configs.first().class_names.get(class_id)
ClassResolves(config, models, class_id) ==
    models > 0 /\ class_id + 1 <= Len(config.class_names)

\* process_outputs: the rows above the threshold, in row order; the `?` on
\* get_class_name fails the whole call at the first kept row without a name
process_outputs(config, models, rows) ==
    LET kept == SelectSeq(rows, LAMBDA r :
                    ScoreAbove(r.confidence, config.confidence_threshold))
    IN  IF \A i \in 1..Len(kept) : ClassResolves(config, models, kept[i].class_id)
        THEN [ok |-> TRUE, dets |-> kept]
        ELSE [ok |-> FALSE, dets |-> <<>>]

\* area of the intersection of two rectangles
IntersectionArea(a, b) ==
    LET Min(p, q) == IF p < q THEN p ELSE q
        Max(p, q) == IF p > q THEN p ELSE q
        w == Min(a.x + a.width, b.x + b.width) - Max(a.x, b.x)
        h == Min(a.y + a.height, b.y + b.height) - Max(a.y, b.y)
    IN  IF w > 0 /\ h > 0 THEN w * h ELSE 0

UnionArea(a, b) ==
    a.width * a.height + b.width * b.height - IntersectionArea(a, b)

\* dnn::nms_boxes keeps a box while its overlap with every kept box is
\* <= nms_threshold
OverlapWithin(a, b, threshold) ==
    IntersectionArea(a, b) * threshold.den <= threshold.num * UnionArea(a, b)

\* dnn::nms_boxes orders the candidates by score, highest first, equal scores
\* in input order
RECURSIVE InsertByScoreTiesFirst(_, _, _)
InsertByScoreTiesFirst(order, idx, dets) ==
    IF order = <<>> THEN <<idx>>
    ELSE IF dets[Head(order)].confidence > dets[idx].confidence
         THEN <<Head(order)>> \o InsertByScoreTiesFirst(Tail(order), idx, dets)
         ELSE <<idx>> \o order

RECURSIVE InsertByScore(_, _, _)
InsertByScore(order, idx, dets) ==
    IF order = <<>> THEN <<idx>>
    ELSE IF dets[Head(order)].confidence >= dets[idx].confidence
         THEN <<Head(order)>> \o InsertByScore(Tail(order), idx, dets)
         ELSE <<idx>> \o order

RECURSIVE SortByInputOrder(_, _)
SortByInputOrder(n, dets) ==
    IF n = 0 THEN <<>> ELSE Append(SortByInputOrder(n - 1, dets), n)

RECURSIVE SortByScore(_, _)
SortByScore(n, dets) ==
    IF n = 0 THEN <<>> ELSE InsertByScore(SortByScore(n - 1, dets), n, dets)

RECURSIVE NmsKeep(_, _, _, _)
NmsKeep(order, kept, dets, threshold) ==
    IF order = <<>> THEN kept
    ELSE LET idx == Head(order)
             keep == \A k \in 1..Len(kept) :
                        OverlapWithin(dets[idx].bbox, dets[kept[k]].bbox, threshold)
         IN  NmsKeep(Tail(order), IF keep THEN Append(kept, idx) ELSE kept,
                     dets, threshold)

\* dnn::nms_boxes(boxes, scores, score_threshold, nms_threshold, indices, 1.0, 0)
nms_boxes(dets, score_threshold, nms_threshold) ==
    LET order == SelectSeq(SortByScore(Len(dets), dets), LAMBDA i :
                     ScoreAbove(dets[i].confidence, score_threshold))
    IN  NmsKeep(order, <<>>, dets, nms_threshold)

\* apply_nms: the detections at the indices nms_boxes returns, in that order
ApplyNmsFirstIndex(config, detections) ==
    IF detections = <<>> THEN detections
    ELSE LET indices == nms_boxes(detections, config.confidence_threshold,
                                  config.nms_threshold)
         IN  [i \in 1..Len(indices) |-> detections[indices[1]]]

apply_nms(config, detections) ==
    IF detections = <<>> THEN detections
    ELSE LET indices == nms_boxes(detections, config.confidence_threshold,
                                  config.nms_threshold)
         IN  [i \in 1..Len(indices) |-> detections[indices[i]]]

\* for model in &self.models { all_detections.extend(process_frame_with_model?) }
RECURSIVE PoolDetectionsPartial(_, _, _, _)
PoolDetectionsPartial(config, outputs, i, pooled) ==
    IF i > Len(outputs) THEN [ok |-> TRUE, dets |-> pooled]
    ELSE IF ~outputs[i].ok THEN [ok |-> FALSE, dets |-> pooled]
    ELSE LET got == process_outputs(config, Len(outputs), outputs[i].rows)
         IN  IF ~got.ok THEN [ok |-> FALSE, dets |-> pooled]
             ELSE PoolDetectionsPartial(config, outputs, i + 1, pooled \o got.dets)

RECURSIVE PoolDetections(_, _, _, _)
PoolDetections(config, outputs, i, pooled) ==
    IF i > Len(outputs) THEN [ok |-> TRUE, dets |-> pooled]
    ELSE IF ~outputs[i].ok THEN [ok |-> FALSE, dets |-> <<>>]
    ELSE LET got == process_outputs(config, Len(outputs), outputs[i].rows)
         IN  IF ~got.ok THEN [ok |-> FALSE, dets |-> <<>>]
             ELSE PoolDetections(config, outputs, i + 1, pooled \o got.dets)

\* Detector::detect on a frame for which the models return `outputs`
detect(config, outputs) ==
    LET all_detections == PoolDetections(config, outputs, 1, <<>>)
    IN  IF ~all_detections.ok THEN all_detections
        ELSE [ok |-> TRUE, dets |-> apply_nms(config, all_detections.dets)]

DetectorNew(configs, inputs) ==
    /\ d_config \in configs
    /\ d_outputs \in inputs
    /\ d_down = {}
    /\ d_result = [ok |-> FALSE, dets |-> <<>>]
    /\ detection_count = 0
    /\ d_calls = 0

\* what the models' infer returns in a call in which the models of `down` fail
InferredWith(down) ==
    [i \in 1..Len(d_outputs) |-> IF i \in down THEN InferenceFailed ELSE d_outputs[i]]

\* *counter += filtered_detections.len(), reached only when detect got that far
CountReturned(count, result) ==
    IF result.ok THEN count + Len(result.dets) ELSE count

\* detect(&self, frame) in a call in which the infer of the models of `down`
\* fails: the result, and the counter
DetectCall(down) ==
    /\ UNCHANGED notDetector
    /\ d_calls < MaxDetectCalls
    /\ d_calls' = d_calls + 1
    /\ d_down' = down
    /\ d_result' = detect(d_config, InferredWith(down))
    /\ detection_count' = CountReturned(detection_count, d_result')
    /\ UNCHANGED <<d_config, d_outputs>>

\* every model's infer returns what was drawn for it
Detector_detect ==
    /\ subject = "Detector"
    /\ DetectCall({})

\* the infer of one model or more returns an error in this call
Detector_detect_infer_err ==
    /\ subject = "Detector"
    /\ \E down \in SUBSET (1..Len(d_outputs)) : down /= {} /\ DetectCall(down)

\* ------------------------------------------------------------------------
\* Detector::detect_batch (vision/detector.rs), one step per detect().await
\* ------------------------------------------------------------------------
\* the frames of a batch: on each, zero, one or two models return no row, one
\* row, or two rows of which the second has class_id 1, or fail
BatchRowSeqs ==
    {<<>>,
     <<[bbox |-> BoxA, confidence |-> 3, class_id |-> 0]>>,
     <<[bbox |-> BoxA, confidence |-> 3, class_id |-> 0],
       [bbox |-> BoxB, confidence |-> 4, class_id |-> 1]>>}

BatchFrames == UNION {ModelOutputs(flat) : flat \in BatchRowSeqs}

BatchLists == UNION {[1..n -> BatchFrames] : n \in 0..MaxBatch}

\* detect_batch(&self, frames) was called: all_batch_detections is empty
BatchCalled(lists) ==
    /\ b_frames \in lists
    /\ b_all = <<>>
    /\ b_ret = "running"
    /\ b_result = <<>>

\* the frame the loop is at
NextBatchFrame == b_frames[Len(b_all) + 1]

\* self.detect(frame).await? gave Err: the call returns it at once, and the
\* local all_batch_detections is dropped
BatchFailed == [all |-> <<>>, ret |-> "err", result |-> <<>>]

\* let detections = self.detect(frame).await?; all_batch_detections.push(..)
Detector_detect_batch_frame_ok ==
    /\ subject = "DetectorBatch"
    /\ UNCHANGED notBatch
    /\ b_ret = "running"
    /\ Len(b_all) < Len(b_frames)
    /\ LET detections == detect(d_config, NextBatchFrame)
       IN  /\ detections.ok
           /\ b_all' = Append(b_all, detections.dets)
           /\ detection_count' = CountReturned(detection_count, detections)
    /\ UNCHANGED <<b_frames, b_ret, b_result>>
    /\ UNCHANGED <<d_config, d_outputs, d_down, d_result, d_calls>>

Detector_detect_batch_frame_err ==
    /\ subject = "DetectorBatch"
    /\ UNCHANGED notBatch
    /\ b_ret = "running"
    /\ Len(b_all) < Len(b_frames)
    /\ ~detect(d_config, NextBatchFrame).ok
    /\ b_all' = BatchFailed.all
    /\ b_ret' = BatchFailed.ret
    /\ b_result' = BatchFailed.result
    /\ UNCHANGED b_frames
    /\ UNCHANGED detectorVars

\* Ok(all_batch_detections), after the last frame
Detector_detect_batch_return ==
    /\ subject = "DetectorBatch"
    /\ UNCHANGED notBatch
    /\ b_ret = "running"
    /\ Len(b_all) = Len(b_frames)
    /\ b_ret' = "ok"
    /\ b_result' = b_all
    /\ UNCHANGED <<b_frames, b_all>>
    /\ UNCHANGED detectorVars

\* ------------------------------------------------------------------------
\* Detector::new (vision/detector.rs), one step per load_model().await
\* ------------------------------------------------------------------------
\* A ModelConfig, and whether load_model succeeds on it.  load_model's body is
\* a placeholder in the source; it is taken to return Ok(model) or Err.
ModelConfigs == [name : {"yolo", "face"}, loads : BOOLEAN]

ModelConfigLists == UNION {[1..n -> ModelConfigs] : n \in 0..MaxModels}

NoDetector == [exists |-> FALSE, models |-> <<>>]

\* Self { config, models, detection_count }
DetectorValue(models) == [exists |-> TRUE, models |-> models]

\* the call Detector::new(config) has begun: let mut models = Vec::new()
NewCalled(lists) ==
    /\ n_model_configs \in lists
    /\ n_models = <<>>
    /\ n_ret = "loading"
    /\ n_detector = NoDetector

\* the model_config the loop is at
NextModelConfig == n_model_configs[Len(n_models) + 1]

\* load_model(model_config).await? failed: the error is returned, `models` is
\* dropped
LoadFailedKeepPartial ==
    [models |-> n_models, ret |-> "ok", detector |-> DetectorValue(n_models)]

LoadFailed == [models |-> <<>>, ret |-> "err", detector |-> NoDetector]

\* let model = Self::load_model(model_config).await?; models.push(Arc::new(model))
Detector_new_load_ok ==
    /\ subject = "DetectorNew"
    /\ UNCHANGED notNew
    /\ n_ret = "loading"
    /\ Len(n_models) < Len(n_model_configs)
    /\ NextModelConfig.loads
    /\ n_models' = Append(n_models, NextModelConfig.name)
    /\ UNCHANGED <<n_model_configs, n_ret, n_detector>>

Detector_new_load_err ==
    /\ subject = "DetectorNew"
    /\ UNCHANGED notNew
    /\ n_ret = "loading"
    /\ Len(n_models) < Len(n_model_configs)
    /\ ~NextModelConfig.loads
    /\ n_models' = LoadFailed.models
    /\ n_ret' = LoadFailed.ret
    /\ n_detector' = LoadFailed.detector
    /\ UNCHANGED n_model_configs

\* Ok(Self { config, models, detection_count: 0 })
Detector_new_return ==
    /\ subject = "DetectorNew"
    /\ UNCHANGED notNew
    /\ n_ret = "loading"
    /\ Len(n_models) = Len(n_model_configs)
    /\ n_ret' = "ok"
    /\ n_detector' = DetectorValue(n_models)
    /\ n_models' = <<>>
    /\ UNCHANGED n_model_configs

\* ------------------------------------------------------------------------
\* Processor (vision/processor.rs)
\* ------------------------------------------------------------------------
\* the tasks that call process_frame on the same Processor
Callers == {"c1", "c2"}

\* Processor::new: frame_counter: Arc::new(Mutex::new(0))
ProcessorNew ==
    /\ frame_counter = 0
    /\ counter_lock = "free"
    /\ pr_pc = [c \in Callers |-> "idle"]
    /\ pr_frames = <<>>
    /\ pr_calls = 0

\* self.frame_counter.lock().await completes when no task holds the guard
MutexFreeAlways(lock) == TRUE

MutexFree(lock) == lock = "free"

\* process_frame(&self, frame) is called
Processor_process_frame(c) ==
    /\ subject = "Processor"
    /\ UNCHANGED notProcessor
    /\ pr_calls < MaxProcessCalls
    /\ pr_pc[c] = "idle"
    /\ pr_pc' = [pr_pc EXCEPT ![c] = "preprocess"]
    /\ pr_calls' = pr_calls + 1
    /\ UNCHANGED <<frame_counter, counter_lock, pr_frames>>

\* every operation.process(&mut frame).await? and cvt_color(..)? succeeded
Processor_preprocess_ok(c) ==
    /\ subject = "Processor"
    /\ UNCHANGED notProcessor
    /\ pr_pc[c] = "preprocess"
    /\ pr_pc' = [pr_pc EXCEPT ![c] = "lock"]
    /\ UNCHANGED <<frame_counter, counter_lock, pr_frames, pr_calls>>

\* an operation or the colour conversion failed: `?` returns the error
Processor_preprocess_err(c) ==
    /\ subject = "Processor"
    /\ UNCHANGED notProcessor
    /\ pr_pc[c] = "preprocess"
    /\ pr_pc' = [pr_pc EXCEPT ![c] = "idle"]
    /\ UNCHANGED <<frame_counter, counter_lock, pr_frames, pr_calls>>

\* let mut counter = self.frame_counter.lock().await
Processor_lock_counter(c) ==
    /\ subject = "Processor"
    /\ UNCHANGED notProcessor
    /\ pr_pc[c] = "lock"
    /\ MutexFree(counter_lock)
    /\ counter_lock' = c
    /\ pr_pc' = [pr_pc EXCEPT ![c] = "increment"]
    /\ UNCHANGED <<frame_counter, pr_frames, pr_calls>>

\* *counter += 1
Processor_increment(c) ==
    /\ subject = "Processor"
    /\ UNCHANGED notProcessor
    /\ pr_pc[c] = "increment"
    /\ frame_counter' = frame_counter + 1
    /\ pr_pc' = [pr_pc EXCEPT ![c] = "frame"]
    /\ UNCHANGED <<counter_lock, pr_frames, pr_calls>>

\* Ok(Frame { id: *counter, timestamp: Utc::now(), .. }); the guard is dropped
\* at the return
Processor_return_frame(c) ==
    /\ subject = "Processor"
    /\ UNCHANGED notProcessor
    /\ pr_pc[c] = "frame"
    /\ pr_frames' = Append(pr_frames, [id |-> frame_counter, caller |-> c])
    /\ counter_lock' = "free"
    /\ pr_pc' = [pr_pc EXCEPT ![c] = "idle"]
    /\ UNCHANGED <<frame_counter, pr_calls>>

Frames == 1..MaxFrames

StageItems == [frame : Frames, stage : {1, 2}]

Init ==
    \/ /\ subject = "Engine"
       /\ EngineNew(EngineConfigs)
       /\ PipelineNew({CHOOSE c \in PipelineConfigs : TRUE})
       /\ StateManagerNew({CHOOSE c \in StateConfigs : TRUE})
       /\ DetectorNew({CHOOSE c \in DetectorConfigs : TRUE}, {<<>>})
       /\ NewCalled({<<>>})
       /\ ProcessorNew
       /\ BatchCalled({<<>>})
       /\ MetricsNew
    \/ /\ subject = "Pipeline"
       /\ EngineNew({DefaultEngineConfig})
       /\ PipelineNew(PipelineConfigs)
       /\ StateManagerNew({CHOOSE c \in StateConfigs : TRUE})
       /\ DetectorNew({CHOOSE c \in DetectorConfigs : TRUE}, {<<>>})
       /\ NewCalled({<<>>})
       /\ ProcessorNew
       /\ BatchCalled({<<>>})
       /\ MetricsNew
    \/ /\ subject = "StateManager"
       /\ EngineNew({DefaultEngineConfig})
       /\ PipelineNew({CHOOSE c \in PipelineConfigs : TRUE})
       /\ StateManagerNew(StateConfigs)
       /\ DetectorNew({CHOOSE c \in DetectorConfigs : TRUE}, {<<>>})
       /\ NewCalled({<<>>})
       /\ ProcessorNew
       /\ BatchCalled({<<>>})
       /\ MetricsNew

Next ==
    \/ Engine_start
    \/ Engine_stop
    \/ \E p \in Producers : Engine_process_frame(p)
    \/ \E p \in Producers : Engine_process_frame_resume(p)
    \/ Engine_get_result
    \/ Engine_worker_recv
    \/ \E f \in Frames : Engine_worker_process_err(f)
    \/ \E f \in Frames : Engine_worker_process_ok(f)
    \/ \E f \in Frames : Engine_worker_send(f)
    \/ Pipeline_start
    \/ Pipeline_stop
    \/ Pipeline_process
    \/ Pipeline_process_resume
    \/ Pipeline_worker_recv
    \/ \E item \in StageItems : Pipeline_worker_stage_ok(item)
    \/ \E item \in StageItems : Pipeline_worker_stage_err(item)
    \/ Pipeline_get_result
    \/ \E es \in EngineStateInputs : State_update_engine_state(es)
    \/ \E ps \in PipelineStateInputs : State_update_pipeline_state(ps)
    \/ \E rs \in ResourceStateInputs : State_update_resource_state(rs)
    \/ State_record_error
    \/ State_monitor_tick

Spec == Init /\ [][Next]_vars

\* The Engine alone
EngineInit == Init /\ subject = "Engine"

EngineNext ==
    \/ Engine_start
    \/ Engine_stop
    \/ \E p \in Producers : Engine_process_frame(p)
    \/ \E p \in Producers : Engine_process_frame_resume(p)
    \/ Engine_get_result
    \/ Engine_worker_recv
    \/ \E f \in Frames : Engine_worker_process_err(f)
    \/ \E f \in Frames : Engine_worker_process_ok(f)
    \/ \E f \in Frames : Engine_worker_send(f)

\* Spawned tasks are scheduled by the runtime and the processor returns: a
\* worker that holds a frame eventually leaves the processor.
FairSpec ==
    /\ EngineInit
    /\ [][EngineNext]_vars
    /\ \A f \in Frames :
          WF_vars(Engine_worker_process_ok(f) \/ Engine_worker_process_err(f))

\* The Engine with every task scheduled: a worker at recv takes a buffered
\* frame, the processor returns, a send into a channel with room completes, and
\* the consumer keeps calling get_result.
LiveSpec ==
    /\ EngineInit
    /\ [][EngineNext]_vars
    /\ WF_vars(Engine_worker_recv)
    /\ \A f \in Frames :
          WF_vars(Engine_worker_process_ok(f) \/ Engine_worker_process_err(f))
    /\ \A f \in Frames : WF_vars(Engine_worker_send(f))
    /\ WF_vars(Engine_get_result)

\* The Detector alone: the models' outputs for the frame are drawn at the
\* start and detect is applied to them
DetectorInit ==
    /\ subject = "Detector"
    /\ EngineNew({DefaultEngineConfig})
    /\ PipelineNew({CHOOSE c \in PipelineConfigs : TRUE})
    /\ StateManagerNew({CHOOSE c \in StateConfigs : TRUE})
    /\ \E flat \in RowSeqs : DetectorNew(DetectorConfigs, ModelOutputs(flat))
    /\ NewCalled({<<>>})
    /\ ProcessorNew
    /\ BatchCalled({<<>>})
    /\ MetricsNew

DetectorNext == Detector_detect

DetectorSpec == DetectorInit /\ [][DetectorNext]_vars

\* The Detector over several calls: the rows come from a smaller set, and in
\* each call any model's infer may fail
FewRows == [bbox : {BoxA, BoxB}, confidence : {2, 3}, class_id : {0, 1}]

FewRowSeqs == UNION {[1..n -> FewRows] : n \in 0..MaxRows}

CallsInit ==
    /\ subject = "Detector"
    /\ EngineNew({DefaultEngineConfig})
    /\ PipelineNew({CHOOSE c \in PipelineConfigs : TRUE})
    /\ StateManagerNew({CHOOSE c \in StateConfigs : TRUE})
    /\ \E flat \in FewRowSeqs : DetectorNew(DetectorConfigs, ModelOutputs(flat))
    /\ NewCalled({<<>>})
    /\ ProcessorNew
    /\ BatchCalled({<<>>})
    /\ MetricsNew

CallsNext ==
    \/ Detector_detect
    \/ Detector_detect_infer_err

CallsSpec == CallsInit /\ [][CallsNext]_vars

\* Detector::new alone, for every list of model configs
NewInit ==
    /\ subject = "DetectorNew"
    /\ EngineNew({DefaultEngineConfig})
    /\ PipelineNew({CHOOSE c \in PipelineConfigs : TRUE})
    /\ StateManagerNew({CHOOSE c \in StateConfigs : TRUE})
    /\ DetectorNew({CHOOSE c \in DetectorConfigs : TRUE}, {<<>>})
    /\ NewCalled(ModelConfigLists)
    /\ ProcessorNew
    /\ BatchCalled({<<>>})
    /\ MetricsNew

NewNext ==
    \/ Detector_new_load_ok
    \/ Detector_new_load_err
    \/ Detector_new_return

NewSpec == NewInit /\ [][NewNext]_vars

\* The Processor alone, process_frame taken statement by statement
ProcessorInit ==
    /\ subject = "Processor"
    /\ EngineNew({DefaultEngineConfig})
    /\ PipelineNew({CHOOSE c \in PipelineConfigs : TRUE})
    /\ StateManagerNew({CHOOSE c \in StateConfigs : TRUE})
    /\ DetectorNew({CHOOSE c \in DetectorConfigs : TRUE}, {<<>>})
    /\ NewCalled({<<>>})
    /\ ProcessorNew
    /\ BatchCalled({<<>>})
    /\ MetricsNew

ProcessorNext ==
    \/ \E c \in Callers : Processor_process_frame(c)
    \/ \E c \in Callers : Processor_preprocess_ok(c)
    \/ \E c \in Callers : Processor_preprocess_err(c)
    \/ \E c \in Callers : Processor_lock_counter(c)
    \/ \E c \in Callers : Processor_increment(c)
    \/ \E c \in Callers : Processor_return_frame(c)

ProcessorSpec == ProcessorInit /\ [][ProcessorNext]_vars

\* detect_batch alone, for every batch of frames
BatchInit ==
    /\ subject = "DetectorBatch"
    /\ EngineNew({DefaultEngineConfig})
    /\ PipelineNew({CHOOSE c \in PipelineConfigs : TRUE})
    /\ StateManagerNew({CHOOSE c \in StateConfigs : TRUE})
    /\ DetectorNew(DetectorConfigs, {<<>>})
    /\ NewCalled({<<>>})
    /\ ProcessorNew
    /\ BatchCalled(BatchLists)
    /\ MetricsNew

BatchNext ==
    \/ Detector_detect_batch_frame_ok
    \/ Detector_detect_batch_frame_err
    \/ Detector_detect_batch_return

BatchSpec == BatchInit /\ [][BatchNext]_vars

\* The workers of one Pipeline in update_metrics, statement by statement
MetricsInit ==
    /\ subject = "Metrics"
    /\ EngineNew({DefaultEngineConfig})
    /\ PipelineNew({CHOOSE c \in PipelineConfigs : TRUE})
    /\ StateManagerNew({CHOOSE c \in StateConfigs : TRUE})
    /\ DetectorNew({CHOOSE c \in DetectorConfigs : TRUE}, {<<>>})
    /\ NewCalled({<<>>})
    /\ ProcessorNew
    /\ BatchCalled({<<>>})
    /\ MetricsNew

MetricsNext ==
    \/ \E w \in MetricsWorkers, n \in StageNames, ok \in BOOLEAN :
          Metrics_stage_process(w, n, ok)
    \/ \E w \in MetricsWorkers : Metrics_write_lock(w)
    \/ \E w \in MetricsWorkers : Metrics_entry(w)
    \/ \E w \in MetricsWorkers : Metrics_add(w)

MetricsSpec == MetricsInit /\ [][MetricsNext]_vars

\* The StateManager alone, its writers taken statement by statement
ReadInit == Init /\ subject = "StateManager"

ReadNext ==
    \/ \E es \in EngineStateInputs : State_update_engine_state(es)
    \/ \E ps \in PipelineStateInputs : State_update_pipeline_state(ps)
    \/ \E rs \in ResourceStateInputs : State_update_resource_state(rs)
    \/ State_record_error_begin
    \/ State_record_error_push
    \/ State_record_error_trim
    \/ State_monitor_sample
    \/ State_monitor_uptime
    \/ State_get_current_state
    \/ State_get_state_history

ReadSpec == ReadInit /\ [][ReadNext]_vars

\* The StateManager with its sampler task taken in two steps, the timer tick
\* and the loop body.  The runtime schedules the sampler and the RwLock serves
\* its waiters in turn: a sampler that can take the lock does take it.
SamplerInit == Init /\ subject = "StateManager"

SamplerNext ==
    \/ \E es \in EngineStateInputs : State_update_engine_state(es)
    \/ \E ps \in PipelineStateInputs : State_update_pipeline_state(ps)
    \/ \E rs \in ResourceStateInputs : State_update_resource_state(rs)
    \/ State_monitor_wake
    \/ State_monitor_run

SamplerSpec == SamplerInit /\ [][SamplerNext]_vars /\ WF_vars(State_monitor_run)

\* ------------------------------------------------------------------------
\* Properties
\* ------------------------------------------------------------------------

\* C1: Engine backpressure. The input queue never holds more than
\* max_batch_size frames; the frame of a suspended process_frame call is neither
\* enqueued nor dropped; and a call that found the queue full completes only
\* after a worker has dequeued a frame since the call was made.
C1_Backpressure ==
    /\ [](/\ Len(processing_queue) <= e_config.max_batch_size
          /\ \A p \in Producers : e_producers[p].pc = "suspended" =>
                /\ e_producers[p].frame \notin SeqToSet(processing_queue)
                /\ e_producers[p].frame \notin SeqToSet(e_dequeued)
                /\ e_producers[p].frame \in 1..(next_frame_id - 1))
    /\ [][\A p \in Producers :
            (e_producers[p].pc = "suspended" /\ e_producers'[p].pc = "idle") =>
                /\ Len(e_dequeued) > e_producers[p].deq_at_call
                /\ processing_queue' =
                       Append(processing_queue, e_producers[p].frame)]_vars

\* Scenario 4: max_batch_size = 1, processing_threads = 1; a call that had to
\* wait for the single worker has completed.
C1_Witness ==
    /\ e_config.max_batch_size = 1
    /\ e_config.processing_threads = 1
    /\ SpawnedWorkers(e_workers) = 1
    /\ \E p \in Producers :
          /\ e_producers[p].pc = "idle"
          /\ e_producers[p].waited
          /\ e_producers[p].ret = "Ok"

PipelineStopped == ~p_state.is_running /\ p_stops > 0

Stopped == ~e_state.is_running /\ gpu_cleanups > 0

\* C2: once a component is stopped it accepts no more work. While the Engine
\* (the Pipeline) is stopped no process_frame (process) call completes with Ok,
\* whether it was made after stop() or was suspended when stop() ran, and the
\* input queue does not grow.
C2_StoppedAcceptsNoWork ==
    [][/\ Stopped =>
            /\ Len(processing_queue') <= Len(processing_queue)
            /\ \A p \in Producers :
                  (e_producers'[p] /= e_producers[p] /\ e_producers'[p].pc = "idle")
                      => e_producers'[p].ret = "Err"
       /\ PipelineStopped =>
            /\ Len(input_channel') <= Len(input_channel)
            /\ (p_producer' /= p_producer /\ p_producer'.pc = "idle")
                      => p_producer'.ret = "Err"]_vars

\* C3: a processor error never terminates the worker. No worker ever leaves
\* its loop, and the step that logs a processor error puts the worker back at
\* the loop head, where it takes the next frame.
C3_FailureIsolation ==
    /\ [](/\ e_workers.exited = 0
          /\ LiveWorkers(e_workers) = SpawnedWorkers(e_workers))
    /\ [][e_log' /= e_log =>
            /\ LiveWorkers(e_workers') = LiveWorkers(e_workers)
            /\ e_workers'.recv = e_workers.recv + 1
            /\ e_workers'.exited = e_workers.exited]_vars

\* the only worker failed on frame 1 and then delivered the result of frame 2
C3_Witness ==
    /\ SpawnedWorkers(e_workers) = 1
    /\ 1 \in e_log
    /\ BagIn(2, e_pushed)

\* C4: get_metrics().error_count equals the number of frames whose processing
\* failed (and last_error is set once a frame failed).
C4_ErrorCountMatchesFailures ==
    /\ Engine_get_metrics.error_count = Cardinality(e_log)
    /\ e_log /= {} => e_state.last_error /= "None"

\* C5: at most one result per accepted frame is put on the result channel, it
\* is returned by get_result at most once, and no frame is held by two workers.
C5_AtMostOneResult ==
    \A f \in Frames :
        /\ CopiesIn(f, e_pushed) <= 1
        /\ CopiesIn(f, e_delivered) <= 1
        /\ CopiesIn(f, e_delivered) <= CopiesIn(f, e_pushed)
        /\ CopiesIn(f, e_workers.process) + CopiesIn(f, e_workers.send) <= 1
        /\ Cardinality({i \in 1..Len(e_dequeued) : e_dequeued[i] = f}) <= 1
        /\ Cardinality({i \in 1..Len(result_channel) : result_channel[i] = f}) <= 1

\* two workers, two results returned
C5_Witness ==
    /\ SpawnedWorkers(e_workers) >= 2
    /\ BagCardinality(e_delivered) >= 2

C7_StartIdempotent ==
    [][/\ (Engine_start /\ e_state.is_running) =>
            /\ e_ret'.ret = "Ok"
            /\ e_state'.is_running
            /\ e_state'.start_time = e_state.start_time
            /\ SpawnedWorkers(e_workers') = SpawnedWorkers(e_workers)
            /\ UNCHANGED <<e_config, e_state, processing_queue, result_channel,
                           e_workers, e_producers, gpu_cleanups, e_clock,
                           next_frame_id, e_log, e_dequeued, e_pushed, e_delivered,
                           e_inflight_at_stop>>
       /\ (Pipeline_start /\ p_state.is_running) =>
            /\ p_ret'.ret = "Ok"
            /\ UNCHANGED <<p_config, p_state, input_channel, output_channel,
                           p_workers, p_producer, p_clock, p_next_frame, p_stops,
                           p_finished, p_aborted>>]_vars

\* the last start/stop call was a start() that found the Engine running, with a
\* frame in the hands of a worker
C7_Witness ==
    /\ e_state.is_running
    /\ e_ret.early
    /\ InFlight(e_workers) /= {}

\* C8: stop() on an Engine or Pipeline that is not running (never started, or
\* already stopped) returns Ok and changes nothing; in particular the GPU
\* cleanup is not called again.
C8_StopWhenNotRunning ==
    [][/\ (Engine_stop /\ ~e_state.is_running) =>
            /\ e_ret'.ret = "Ok"
            /\ gpu_cleanups' = gpu_cleanups
            /\ UNCHANGED <<e_config, e_state, processing_queue, result_channel,
                           e_workers, e_producers, gpu_cleanups, e_clock,
                           next_frame_id, e_log, e_dequeued, e_pushed, e_delivered,
                           e_inflight_at_stop>>
       /\ (Pipeline_stop /\ ~p_state.is_running) =>
            /\ p_ret'.ret = "Ok"
            /\ UNCHANGED <<p_config, p_state, input_channel, output_channel,
                           p_workers, p_producer, p_clock, p_next_frame, p_stops,
                           p_finished, p_aborted>>]_vars

\* the last start/stop call was a stop() on an Engine that an earlier stop()
\* had already stopped: one cleanup only
C8_Witness ==
    /\ ~e_state.is_running
    /\ e_ret.early
    /\ e_clock = 2
    /\ gpu_cleanups = 1

\* C9: in every reachable state of the StateManager the snapshot history holds
\* at most history_size entries; with history_size = 0 it is empty.
C9_HistoryBounded ==
    /\ Len(get_state_history) <= s_config.history_size
    /\ s_config.history_size = 0 => get_state_history = <<>>

\* update_engine_state was called after a pipeline update, a resource update,
\* an error and a sampler tick, on a manager that keeps one snapshot
C9_Witness ==
    /\ subject = "StateManager"
    /\ s_config.history_size = 1
    /\ s_update_pc = "take_snapshot"
    /\ state.engine_state.status = "Running"
    /\ state.pipeline_state.queue_size = 1
    /\ state.error_state.error_count = 1
    /\ s_ticks = 1

\* C10: the error history never holds more than 100 entries, and a
\* record_error call that finds 100 entries evicts the oldest one: the other
\* 99 move up and the new error is the last entry.
C10_ErrorHistoryBounded ==
    /\ [](Len(state.error_state.error_history) <= ErrorHistoryCap)
    /\ [][LET eh == state.error_state.error_history
              eh2 == state.error_state.error_history'
          IN  (state.error_state.error_count' /= state.error_state.error_count
                  /\ Len(eh) = ErrorHistoryCap) =>
                 /\ Len(eh2) = ErrorHistoryCap
                 /\ \A i \in 1..(ErrorHistoryCap - 1) : eh2[i] = eh[i + 1]
                 /\ eh2[ErrorHistoryCap] = state.error_state.last_error'
                 /\ eh2[ErrorHistoryCap] \notin SeqToSet(eh)]_vars

\* the 101st error was recorded: the history holds errors 2..101
C10_Witness ==
    /\ state.error_state.error_count = ErrorHistoryCap + 1
    /\ Len(state.error_state.error_history) = ErrorHistoryCap
    /\ state.error_state.error_history[1].timestamp = 2
    /\ state.error_state.error_history[ErrorHistoryCap].timestamp
           = ErrorHistoryCap + 1

\* update_engine_state calls made so far. The first call never returns and
\* keeps the write guard, so no second call gets past state.write().
UpdateEngineStateCalls == IF s_update_pc = "idle" THEN 0 ELSE 1

\* C11: after n update_engine_state calls on a StateManager with
\* history_size = k, get_state_history returns exactly the last min(n, k)
\* snapshots, oldest first, each holding the state as the call left it.
C11_HistoryIsLastSnapshots ==
    LET n == UpdateEngineStateCalls
        k == s_config.history_size
        m == IF n < k THEN n ELSE k
    IN  /\ Len(get_state_history) = m
        /\ \A i \in 1..m : get_state_history[i].state = get_current_state

\* number of record_error calls so far: the clock ticks once per call
RecordErrorCalls == s_clock - 1

\* C12: after n record_error calls error_count is n, last_error is the error
\* of the latest call, and error_history is the latest min(n, 100) errors in
\* call order.
C12_ErrorLog ==
    LET es == state.error_state
        n == RecordErrorCalls
        m == IF n < ErrorHistoryCap THEN n ELSE ErrorHistoryCap
    IN  /\ es.error_count = n
        /\ n > 0 => es.last_error = [timestamp |-> n, error_type |-> "e"]
        /\ Len(es.error_history) = m
        /\ \A i \in 1..m :
              es.error_history[i] = [timestamp |-> n - m + i, error_type |-> "e"]

\* 102 errors recorded: the history holds errors 3..102
C12_Witness ==
    /\ state.error_state.error_count = ErrorHistoryCap + 2
    /\ Len(state.error_state.error_history) = ErrorHistoryCap
    /\ state.error_state.error_history[1].timestamp = 3
    /\ state.error_state.last_error.timestamp = ErrorHistoryCap + 2

\* C13: reads are atomic with respect to writes. Every get_current_state call
\* returns the state as a finished write left it, never the state between two
\* assignments of one write; get_state_history returns the history as it
\* stands, within its bound; and the three statements of record_error add up
\* to one whole record_error on the state the write started from.
C13_ReadsAtomic ==
    /\ [][s_read' /= s_read =>
            /\ s_read'.kind = "state" => s_read'.value = s_committed
            /\ s_read'.kind = "history" =>
                  /\ s_read'.value = history
                  /\ Len(s_read'.value) <= s_config.history_size]_vars
    /\ [][s_update_pc = "record_error_trim" =>
            state'.error_state =
                record_error(s_committed.error_state,
                             state.error_state.last_error)]_vars

\* a read returned the state after the first error, and a second record_error
\* is now between its assignments, the sampler having run in between
C13_Witness ==
    /\ s_read.kind = "state"
    /\ s_read.value.error_state.error_count = 1
    /\ Len(s_read.value.error_state.error_history) = 1
    /\ s_update_pc = "record_error_push"
    /\ state.error_state.error_count = 2
    /\ Len(state.error_state.error_history) = 1
    /\ s_ticks = 1

\* the metrics recorded under a stage name; zeroes when the map has no entry
StageMetricsOf(name) ==
    LET hit == {i \in 1..Len(p_state.stage_metrics) :
                    p_state.stage_metrics[i].name = name}
    IN  IF hit = {}
        THEN [name |-> name, processed |-> 0, errors |-> 0]
        ELSE p_state.stage_metrics[CHOOSE i \in hit : TRUE]

\* number of process calls of stage i, over all items, that returned Ok
\* (ok = TRUE) or Err (ok = FALSE)
RECURSIVE SumCopies(_, _)
SumCopies(S, bag) ==
    IF S = {} THEN 0
    ELSE LET c == CHOOSE x \in S : TRUE
         IN  CopiesIn(c, bag) + SumCopies(S \ {c}, bag)

StageCalls(i, ok) ==
    SumCopies({c \in BagToSet(p_calls) : c.stage = i /\ c.ok = ok}, p_calls)

\* no item is on its way: nothing queued, nothing suspended, every worker
\* back at the head of its loop
PipelineQuiescent ==
    /\ input_channel = <<>>
    /\ p_producer.pc = "idle"
    /\ p_workers.busy = EmptyBag

\* number of times an item was handed on: to the output queue or, from
\* there, to a get_result caller
Emitted(f) ==
    Cardinality({i \in 1..Len(output_channel) : output_channel[i] = f})
        + Cardinality({i \in 1..Len(p_results) : p_results[i] = f})

\* C14: a stage configured with enabled = false is never invoked on any item,
\* whatever its type, and its metrics stay untouched.
C14_DisabledStageSkipped ==
    \A i \in 1..Len(p_config.stages) :
        ~p_config.stages[i].enabled =>
            /\ \A c \in BagToSet(p_calls) : c.stage /= i
            /\ \A j \in 1..Len(p_state.stage_metrics) :
                  p_state.stage_metrics[j].name /= p_config.stages[i].name

\* C15: a stage failure aborts the chain for the item. The step in which a
\* stage's process returns Err takes the item from its worker, emits nothing,
\* adds one to that stage's errors and puts the worker back at the head of
\* its loop; and an aborted item has no call of a later stage, is not among the
\* items that passed every stage and was never handed on.
C15_FailureAbortsChain ==
    /\ [][\A item \in StageItems :
            LET failed == [frame |-> item.frame, stage |-> item.stage, ok |-> FALSE]
                name == p_config.stages[item.stage].name
            IN  CopiesIn(failed, p_calls') > CopiesIn(failed, p_calls) =>
                  /\ item.frame \in p_aborted'
                  /\ \A b \in BagToSet(p_workers'.busy) : b.frame /= item.frame
                  /\ output_channel' = output_channel
                  /\ StageMetricsOf(name)'.errors = StageMetricsOf(name).errors + 1
                  /\ StageMetricsOf(name)'.processed = StageMetricsOf(name).processed
                  /\ p_workers'.recv = p_workers.recv + 1
                  /\ PipelineLiveWorkers(p_workers') = PipelineLiveWorkers(p_workers)
         ]_vars
    /\ [](\A f \in p_aborted :
            /\ f \notin p_finished
            /\ Emitted(f) = 0
            /\ \A c, d \in BagToSet(p_calls) :
                  (c.frame = f /\ d.frame = f /\ ~c.ok) => d.stage <= c.stage)

\* the only worker of a pipeline whose first stage is the Detection stage saw
\* it fail on item 1 and then took item 2 through both stages
C15_Witness ==
    /\ PipelineLiveWorkers(p_workers) = 1
    /\ p_config.stages[1].stage_type = "Detection"
    /\ 1 \in p_aborted
    /\ StageCalls(2, TRUE) = 1
    /\ 2 \in p_finished

\* C16: every item for which all stages succeeded is emitted exactly once:
\* once no item is on its way, each such item is in the output queue or was
\* returned by get_result, once.
C16_FinishedItemsEmitted ==
    PipelineQuiescent => \A f \in p_finished : Emitted(f) = 1

\* C17: an item is dropped only after retry_count + 1 attempts of one stage
\* have all failed on it.
C17_RetryBeforeDrop ==
    \A f \in p_aborted :
        \E i \in 1..Len(p_config.stages) :
            CopiesIn([frame |-> f, stage |-> i, ok |-> FALSE], p_calls)
                = p_config.retry_count + 1

\* C18: per-stage metrics count attempts, and in the scenario of the spec
\* (stages [PreProcess, Detection], both enabled, retry_count = 2, one item,
\* Detection failing on it no more than twice) the item reaches the output and the
\* Detection metrics show one success beside the failures.
C18_MetricsCountAttempts ==
    /\ \A i \in 1..Len(p_config.stages) :
          /\ StageMetricsOf(p_config.stages[i].name).errors = StageCalls(i, FALSE)
          /\ StageMetricsOf(p_config.stages[i].name).processed = StageCalls(i, TRUE)
    /\ (/\ p_config.stages[1].stage_type = "PreProcess"
        /\ p_config.stages[2].stage_type = "Detection"
        /\ \A i \in 1..2 : p_config.stages[i].enabled
        /\ p_config.retry_count = 2
        /\ p_next_frame = 2
        /\ PipelineQuiescent
        /\ StageCalls(2, FALSE) \in 1..p_config.retry_count)
       => /\ Emitted(1) = 1
          /\ StageMetricsOf("det").processed = 1
          /\ StageMetricsOf("det").errors = StageCalls(2, FALSE)

\* C19: every Detection that detect returns has confidence of at least
\* confidence_threshold, whatever the number of models and their output rows.
C19_ConfidenceAtLeastThreshold ==
    \A i \in 1..Len(d_result.dets) :
        d_result.dets[i].confidence >= d_config.confidence_threshold

\* two models, one row each: the row at the threshold was dropped and the row
\* above it was returned
C19_Witness ==
    /\ d_calls > 0
    /\ d_result.ok
    /\ Len(d_outputs) = 2
    /\ Len(d_outputs[1].rows) = 1
    /\ Len(d_outputs[2].rows) = 1
    /\ d_outputs[1].rows[1].confidence = d_config.confidence_threshold
    /\ d_outputs[2].rows[1].confidence = d_config.confidence_threshold + 1
    /\ d_result.dets = d_outputs[2].rows

\* C20: any two distinct detections in the output of the suppression step have
\* IoU strictly below nms_threshold; a pair whose IoU is exactly nms_threshold
\* never survives together.
C20_SurvivorsBelowThreshold ==
    \A i, j \in 1..Len(d_result.dets) :
        i /= j =>
            IntersectionArea(d_result.dets[i].bbox, d_result.dets[j].bbox)
                    * d_config.nms_threshold.den
                < d_config.nms_threshold.num
                    * UnionArea(d_result.dets[i].bbox, d_result.dets[j].bbox)

\* ------------------------------------------------------------------------
\* Detector: the suppression step
\* ------------------------------------------------------------------------
\* all_detections of detect: what apply_nms is given for the frame
Pooled == PoolDetections(d_config, d_outputs, 1, <<>>)

\* the bag of the elements of a sequence
BagOfSeq(s) ==
    [x \in SeqToSet(s) |-> Cardinality({i \in 1..Len(s) : s[i] = x})]

\* C21: the output of apply_nms is a sub-multiset of its input: every output
\* detection is an input detection, unmodified, taken at most as often as the
\* input holds it, so the output is never longer than the input.
C21_OutputSubMultiset ==
    (d_calls > 0 /\ d_result.ok)
       => /\ BagOfSeq(d_result.dets) \sqsubseteq BagOfSeq(Pooled.dets)
          /\ Len(d_result.dets) <= Len(Pooled.dets)

\* the same detection came in twice, from two models, and went out once
C21_Witness ==
    /\ d_calls > 0
    /\ d_result.ok
    /\ Len(d_outputs) = 2
    /\ Len(Pooled.dets) = 2
    /\ Pooled.dets[1] = Pooled.dets[2]
    /\ d_result.dets = <<Pooled.dets[1]>>

\* C22: suppression is idempotent: apply_nms applied to the output of apply_nms,
\* with the same thresholds, returns that output unchanged.
C22_NmsIdempotent ==
    (d_calls > 0 /\ d_result.ok)
       => apply_nms(d_config, d_result.dets) = d_result.dets

\* two detections of equal confidence on boxes that do not overlap were both
\* kept, in input order
C22_Witness ==
    /\ d_calls > 0
    /\ d_result.ok
    /\ Len(d_result.dets) = 2
    /\ d_result.dets = Pooled.dets
    /\ d_result.dets[1].confidence = d_result.dets[2].confidence
    /\ d_result.dets[1].bbox = BoxB
    /\ d_result.dets[2].bbox = BoxC

\* the positions of Pooled.dets that dnn::nms_boxes returns
KeptIndices ==
    nms_boxes(Pooled.dets, d_config.confidence_threshold, d_config.nms_threshold)

\* IoU(a, b) >= threshold
OverlapReaches(a, b, threshold) ==
    IntersectionArea(a, b) * threshold.den >= threshold.num * UnionArea(a, b)

\* IoU(a, b) > threshold
OverlapExceeds(a, b, threshold) ==
    IntersectionArea(a, b) * threshold.den > threshold.num * UnionArea(a, b)

\* the first pooled detection of the highest confidence is the first output
KeepsBest ==
    LET in == Pooled.dets
        best == CHOOSE i \in 1..Len(in) :
                    /\ \A j \in 1..Len(in) : in[j].confidence <= in[i].confidence
                    /\ \A j \in 1..(i - 1) : in[j].confidence < in[i].confidence
    IN  in /= <<>> => (d_result.dets /= <<>> /\ d_result.dets[1] = in[best])

\* a pooled detection that overlaps a kept one as Reaches(..) says is not kept,
\* whatever the two class ids
RemovesOverlapping(Reaches(_, _, _)) ==
    /\ d_result.dets = [i \in 1..Len(KeptIndices) |-> Pooled.dets[KeptIndices[i]]]
    /\ \A j \in 1..Len(Pooled.dets) : \A k \in SeqToSet(KeptIndices) :
          (j /= k /\ Reaches(Pooled.dets[j].bbox, Pooled.dets[k].bbox,
                             d_config.nms_threshold))
             => j \notin SeqToSet(KeptIndices)

\* confidence_threshold 0.5, nms_threshold 0.4, two boxes of IoU 0.8 with
\* confidences 0.9 and 0.6 (confidences in the model's units: 2, 4 and 3)
TwoBoxScenario ==
    /\ d_config.confidence_threshold = 2
    /\ d_config.nms_threshold = [num |-> 2, den |-> 5]
    /\ Len(Pooled.dets) = 2
    /\ {Pooled.dets[1].confidence, Pooled.dets[2].confidence} = {4, 3}
    /\ IntersectionArea(Pooled.dets[1].bbox, Pooled.dets[2].bbox) * 5
          = 4 * UnionArea(Pooled.dets[1].bbox, Pooled.dets[2].bbox)

ScenarioOutput ==
    TwoBoxScenario
       => /\ Len(d_result.dets) = 1
          /\ d_result.dets[1].confidence = 4

\* C23: suppression is global and keeps the best box: the highest-confidence
\* pooled detection is in the output, every other detection whose IoU with a
\* kept detection reaches nms_threshold is removed, whatever its class_id, and
\* in the two-box scenario only the 0.9 detection is returned.
C23_GlobalKeepsBest ==
    (d_calls > 0 /\ d_result.ok)
       => /\ KeepsBest
          /\ RemovesOverlapping(OverlapReaches)
          /\ ScenarioOutput

\* the parts of C23 that the code meets: with "exceeds" for "reaches"
C23_ExceptAtThreshold ==
    (d_calls > 0 /\ d_result.ok)
       => /\ KeepsBest
          /\ RemovesOverlapping(OverlapExceeds)
          /\ ScenarioOutput

\* the scenario with the two boxes in different classes
C23_ScenarioReached ==
    /\ d_calls > 0
    /\ d_result.ok
    /\ TwoBoxScenario
    /\ Pooled.dets[1].class_id /= Pooled.dets[2].class_id
    /\ Pooled.dets[1].confidence = 3
    /\ d_result.dets = <<Pooled.dets[2]>>

\* ------------------------------------------------------------------------
\* Detector::new
\* ------------------------------------------------------------------------
\* the names of the configured models, in order
ConfiguredNames == [i \in 1..Len(n_model_configs) |-> n_model_configs[i].name]

\* C24: Detector construction is all-or-nothing: when loading a configured
\* model fails, new returns an error and no Detector value exists; a Detector
\* exists only after new returned Ok, and then it holds exactly one loaded model
\* per entry of model_configs, in order.
C24_ConstructionAllOrNothing ==
    /\ (\E i \in 1..Len(n_model_configs) : ~n_model_configs[i].loads)
          => (n_ret \in {"loading", "err"} /\ ~n_detector.exists)
    /\ n_ret = "err" => ~n_detector.exists
    /\ n_detector.exists
          => (n_ret = "ok" /\ n_detector.models = ConfiguredNames)

\* the second of three models failed to load after the first was loaded
C24_Witness ==
    /\ Len(n_model_configs) = 3
    /\ n_model_configs[1].loads
    /\ ~n_model_configs[2].loads
    /\ n_ret = "err"
    /\ ~n_detector.exists

\* three models loaded, and the Detector holds them in the configured order
C24_WitnessBuilt ==
    /\ Len(n_model_configs) = 3
    /\ n_model_configs[1].name /= n_model_configs[2].name
    /\ n_ret = "ok"
    /\ n_detector.exists
    /\ n_detector.models = ConfiguredNames

\* ------------------------------------------------------------------------
\* Detector::detect, failures
\* ------------------------------------------------------------------------
\* in the call just made, some model's infer failed
AnyInferenceFailed ==
    \E i \in 1..Len(d_outputs) : i \in d_down' \/ ~d_outputs[i].ok

\* some kept row (confidence above the threshold) has a class_id without a
\* name in the first model's class list
AnyKeptRowUnresolved ==
    \E i \in 1..Len(d_outputs) : \E r \in 1..Len(d_outputs[i].rows) :
        /\ d_outputs[i].rows[r].confidence > d_config.confidence_threshold
        /\ d_outputs[i].rows[r].class_id >= Len(d_config.class_names)

\* C25: if inference fails for any model, or a kept row has a class_id that
\* cannot be resolved, detect returns an error with no detections at all, and
\* the detection counter is left unchanged.
C25_FailureReturnsNothing ==
    [][(d_calls' = d_calls + 1 /\ (AnyInferenceFailed \/ AnyKeptRowUnresolved))
          => /\ ~d_result'.ok
             /\ d_result'.dets = <<>>
             /\ detection_count' = detection_count]_vars

\* after a call that counted a detection, the second model's infer failed while
\* the first model's row was good: nothing was returned, the counter stayed
C25_Witness ==
    /\ d_calls = 2
    /\ Len(d_outputs) = 2
    /\ d_down = {2}
    /\ Len(Pooled.dets) = 2
    /\ ~d_result.ok
    /\ d_result.dets = <<>>
    /\ detection_count > 0

\* the first model's row was good and the second model's kept row has no class
\* name: nothing was returned
C25_WitnessUnresolved ==
    /\ d_calls > 0
    /\ d_down = {}
    /\ Len(d_outputs) = 2
    /\ d_outputs[1].ok /\ d_outputs[2].ok
    /\ Len(d_outputs[1].rows) = 1 /\ Len(d_outputs[2].rows) = 1
    /\ d_outputs[1].rows[1].confidence > d_config.confidence_threshold
    /\ d_outputs[1].rows[1].class_id = 0
    /\ d_outputs[2].rows[1].confidence > d_config.confidence_threshold
    /\ d_outputs[2].rows[1].class_id >= Len(d_config.class_names)
    /\ ~d_result.ok
    /\ detection_count = 0

\* ------------------------------------------------------------------------
\* Processor
\* ------------------------------------------------------------------------
\* the calls that failed in preprocessing
PreprocessFailed(c) == pr_pc[c] = "preprocess" /\ pr_pc'[c] = "idle"

\* C26: frame ids of one Processor strictly increase: under any interleaving
\* of concurrent process_frame calls the frames created have distinct ids, a
\* frame created later has a larger id, and a call that fails in preprocessing
\* consumes no id.
C26_FrameIdsIncrease ==
    [][/\ \A i, j \in 1..Len(pr_frames') : i < j => pr_frames'[i].id < pr_frames'[j].id
       /\ \A i \in 1..Len(pr_frames') : pr_frames'[i].id = i
       /\ \A c \in Callers :
             PreprocessFailed(c) => (frame_counter' = frame_counter
                                        /\ pr_frames' = pr_frames)]_vars

\* both callers were inside process_frame at once; one call failed in
\* preprocessing and two frames were created, one by each caller
C26_Witness ==
    /\ pr_calls = 3
    /\ Len(pr_frames) = 2
    /\ pr_frames[1].caller /= pr_frames[2].caller
    /\ pr_frames[1].id = 1
    /\ pr_frames[2].id = 2
    /\ \A c \in Callers : pr_pc[c] = "idle"

\* ------------------------------------------------------------------------
\* StateManager: snapshots and partitions
\* ------------------------------------------------------------------------
\* an update_engine_state call has returned when it is no longer inside the
\* function and its write guard is dropped
UpdateEngineStatePending == s_update_pc /= "idle" \/ state_lock = "write"

\* C27: a persistence failure is non-fatal: with persist_state enabled,
\* whatever becomes of the write of the state file, an update_engine_state
\* call returns Ok with the engine state updated and the snapshot in the
\* history.
C27_PersistFailureNonFatal ==
    (s_config.persist_state /\ s_config.history_size > 0
        /\ UpdateEngineStateCalls > 0)
       => /\ ~UpdateEngineStatePending
          /\ history /= <<>>
          /\ history[Len(history)].state.engine_state = state.engine_state

\* ------------------------------------------------------------------------
\* Pipeline: order of the stages
\* ------------------------------------------------------------------------
\* what stage i is given when every stage before it succeeded: the work of
\* the stages 1..i-1 of the StageConfig list, in that order
RECURSIVE WorkOfStages(_)
WorkOfStages(i) ==
    IF i = 0 THEN InitialData
    ELSE IF p_config.stages[i].stage_type = "PreProcess"
         THEN WorkOfStages(i - 1)
         ELSE Append(WorkOfStages(i - 1), p_config.stages[i].name)

\* C28: a worker drives an item through the stages in the order of the
\* StageConfig list: stage i+1 is invoked only after stage i succeeded on that
\* item and is given stage i's output, and each success adds exactly one to
\* that stage's processed counter and changes no other counter.
C28_StagesInOrder ==
    /\ [](\A c \in BagToSet(p_calls) :
            c.stage > 1 =>
               BagIn([frame |-> c.frame, stage |-> c.stage - 1, ok |-> TRUE], p_calls))
    /\ [](\A b \in BagToSet(p_workers.busy) :
            b.stage > 1 =>
               BagIn([frame |-> b.frame, stage |-> b.stage - 1, ok |-> TRUE], p_calls))
    /\ [](\A c \in p_inputs : c.input = WorkOfStages(c.stage - 1))
    /\ [][\A item \in StageItems :
            LET passed == [frame |-> item.frame, stage |-> item.stage, ok |-> TRUE]
            IN  CopiesIn(passed, p_calls') > CopiesIn(passed, p_calls) =>
                  \A i \in 1..Len(p_config.stages) :
                     LET name == p_config.stages[i].name
                     IN  /\ StageMetricsOf(name)'.processed =
                               StageMetricsOf(name).processed
                                  + (IF i = item.stage THEN 1 ELSE 0)
                         /\ StageMetricsOf(name)'.errors = StageMetricsOf(name).errors
         ]_vars

\* with the Detection stage first, the PreProcess stage was given the
\* Detection stage's output for item 1, and each stage counted one success
C28_Witness ==
    /\ p_config.stages[1].stage_type = "Detection"
    /\ [frame |-> 1, stage |-> 2, input |-> <<"det">>] \in p_inputs
    /\ 1 \in p_finished
    /\ StageMetricsOf("det").processed = 1
    /\ StageMetricsOf("pre").processed = 1

\* the step is an update_engine_state call: the engine state is assigned and
\* the call goes on into take_snapshot
UpdateEngineStateStep == s_update_pc = "idle" /\ s_update_pc' /= "idle"

\* update_pipeline_state, update_resource_state, record_error and the sampler
\* leave the history as it is
OthersLeaveHistory == [][~UpdateEngineStateStep => history' = history]_vars

\* C29: only engine-state updates take a snapshot: update_pipeline_state,
\* update_resource_state, record_error and sampler ticks leave the snapshot
\* history unchanged, and each update_engine_state appends exactly one
\* snapshot, of the state as the call left it, before eviction.
C29_OnlyEngineUpdatesSnapshot ==
    [][/\ ~UpdateEngineStateStep => history' = history
       /\ UpdateEngineStateStep
             => history' = TrimHistory(
                               Append(history, [timestamp |-> s_clock, state |-> state']),
                               s_config.history_size)]_vars

\* the partitions of SystemState that the step changes
Partitions == {"engine_state", "pipeline_state", "resource_state", "error_state"}

ChangedPartitions == {f \in Partitions : state'[f] /= state[f]}

\* C30: each StateManager update mutates only its own partition:
\* update_engine_state only engine_state, update_pipeline_state only
\* pipeline_state, update_resource_state only resource_state and record_error
\* only error_state; the other three partitions are unchanged by the call.
C30_OwnPartitionOnly ==
    [][/\ (\E es \in EngineStateInputs : State_update_engine_state(es))
             => ChangedPartitions \subseteq {"engine_state"}
       /\ (\E ps \in PipelineStateInputs : State_update_pipeline_state(ps))
             => ChangedPartitions \subseteq {"pipeline_state"}
       /\ (\E rs \in ResourceStateInputs : State_update_resource_state(rs))
             => ChangedPartitions \subseteq {"resource_state"}
       /\ (State_record_error \/ State_record_error_begin
              \/ State_record_error_push \/ State_record_error_trim)
             => ChangedPartitions \subseteq {"error_state"}]_vars

\* each of the four calls was made and changed its partition; the engine
\* update came last, after the sampler had cleared the resource state
C30_Witness ==
    /\ state.pipeline_state.queue_size = 1
    /\ state.resource_state.gpu_usage = 1
    /\ state.error_state.error_count = 1
    /\ state.engine_state.status = "Running"
    /\ s_ticks > 0
    /\ s_update_pc /= "idle"

\* every entry of the history before the step is still there after it,
\* unchanged, unless it was evicted from the front
EntriesKept ==
    \E k \in 0..Len(history) :
        /\ Len(history') >= Len(history) - k
        /\ \A i \in 1..(Len(history) - k) : history'[i] = history[i + k]

\* C31: the snapshot taken by update_engine_state(s) is a copy of the state
\* right after that update: the newest history entry has engine_state = s and
\* the other partitions as they are at that moment; and no step changes an
\* entry that is already in the history.
C31_SnapshotIsCopy ==
    [][/\ \A es \in EngineStateInputs :
             (State_update_engine_state(es) /\ s_config.history_size > 0)
                => /\ history' /= <<>>
                   /\ history'[Len(history')].state.engine_state = es
                   /\ history'[Len(history')].state = state'
       /\ EntriesKept]_vars

\* ------------------------------------------------------------------------
\* StateManager: the sampler
\* ------------------------------------------------------------------------
\* the loop body of the sampler: uptime advances by snapshot_interval when the
\* status is Running and stays otherwise, resource_state is replaced by the
\* sampled values, nothing else changes
SamplerBodyEffect ==
    [][State_monitor_run
          => /\ state'.engine_state.uptime =
                   state.engine_state.uptime
                      + (IF state.engine_state.status = "Running"
                         THEN s_config.snapshot_interval ELSE 0)
             /\ state'.engine_state.status = state.engine_state.status
             /\ state'.engine_state.frames_processed
                   = state.engine_state.frames_processed
             /\ state'.resource_state = SampledResourceState
             /\ state'.pipeline_state = state.pipeline_state
             /\ state'.error_state = state.error_state
             /\ history' = history]_vars

\* C32: on each tick of the sampler, engine_state.uptime increases by exactly
\* snapshot_interval if the engine status is Running at the tick and is
\* unchanged for every other status; the tick replaces resource_state with the
\* sampled values and changes nothing else.
C32_TickAdvancesUptime ==
    /\ SamplerBodyEffect
    /\ \A u \in 0..(MaxTicks * 5) :
          (s_sampler = "waiting" /\ state.engine_state.status = "Running"
              /\ state.engine_state.uptime = u)
             ~> (state.engine_state.uptime = u + s_config.snapshot_interval)

\* ------------------------------------------------------------------------
\* Detector: the order of the returned list
\* ------------------------------------------------------------------------
\* C33: the list returned by Detector.detect is sorted by non-increasing
\* confidence, for any number of models and any pooled detections.
C33_SortedByConfidence ==
    (d_calls > 0 /\ d_result.ok)
       => \A i, j \in 1..Len(d_result.dets) :
             i < j => d_result.dets[i].confidence >= d_result.dets[j].confidence

\* two models, the first one's detection the weaker: both were returned, the
\* second model's detection first
C33_Witness ==
    /\ d_calls > 0
    /\ d_result.ok
    /\ Len(d_outputs) = 2
    /\ Len(Pooled.dets) = 2
    /\ Pooled.dets[1].confidence < Pooled.dets[2].confidence
    /\ d_result.dets = <<Pooled.dets[2], Pooled.dets[1]>>

\* ------------------------------------------------------------------------
\* Detector: detect_batch
\* ------------------------------------------------------------------------
\* the frames of the batch on which detect succeeds, in order
DetectedFrames == SelectSeq(b_frames, LAMBDA f : detect(d_config, f).ok)

\* a batch that returned Ok has one entry per frame, entry i being
\* detect(frames[i])
BatchOkIsDetectPerFrame ==
    b_ret = "ok"
       => /\ Len(b_result) = Len(b_frames)
          /\ \A i \in 1..Len(b_frames) :
                /\ detect(d_config, b_frames[i]).ok
                /\ b_result[i] = detect(d_config, b_frames[i]).dets

\* C34: detect_batch is detect applied per frame in order: on success the
\* result has one entry per input frame and entry i equals detect(frames[i]);
\* a failure on one frame drops only that frame and does not discard the
\* detections of the other frames of the batch.
C34_BatchDropsOnlyFailedFrames ==
    b_ret /= "running"
       => /\ b_ret = "ok"
          /\ b_result = [i \in 1..Len(DetectedFrames) |->
                            detect(d_config, DetectedFrames[i]).dets]

\* ------------------------------------------------------------------------
\* Engine and Pipeline: order of the input queues
\* ------------------------------------------------------------------------
\* frame ids are given in the order in which the process_frame calls begin
Increasing(q) == \A i, j \in 1..Len(q) : i < j => q[i] < q[j]

\* no other producer than p has called process_frame
SoleProducer(p) == \A q \in Producers \ {p} : e_producers[q] = IdleProducer

\* a step that takes a frame from the Engine's queue takes the oldest one, and
\* a step that adds one adds it behind the others
EngineQueueStep ==
    /\ e_dequeued' /= e_dequeued
          => /\ processing_queue /= <<>>
             /\ e_dequeued' = Append(e_dequeued, processing_queue[1])
             /\ processing_queue' = SubSeq(processing_queue, 2, Len(processing_queue))
    /\ (processing_queue' /= processing_queue /\ e_dequeued' = e_dequeued)
          => /\ Len(processing_queue') = Len(processing_queue) + 1
             /\ SubSeq(processing_queue', 1, Len(processing_queue)) = processing_queue

\* the same for the Pipeline's input channel: the worker that takes an item
\* starts stage 1 on the oldest one
PipelineQueueStep ==
    input_channel' /= input_channel
       => \/ /\ Len(input_channel') = Len(input_channel) + 1
             /\ SubSeq(input_channel', 1, Len(input_channel)) = input_channel
          \/ /\ input_channel /= <<>>
             /\ input_channel' = SubSeq(input_channel, 2, Len(input_channel))
             /\ p_workers'.busy =
                   p_workers.busy (+) One([frame |-> input_channel[1], stage |-> 1])

\* the frames the Pipeline's workers have taken were sent before the frames
\* still in the input channel
PipelineTakenBeforeWaiting ==
    \A a \in SeqToSet(input_channel) :
        /\ \A item \in BagToSet(p_workers.busy) : item.frame < a
        /\ \A f \in p_finished \cup p_aborted : f < a

\* C35: input queues are FIFO for a single producer: if one producer's
\* process_frame call for frame a completes before its call for frame b starts,
\* then a is dequeued by a worker before b is dequeued (results may still
\* complete out of order across workers).
C35_SingleProducerFifo ==
    /\ []((\E p \in Producers : SoleProducer(p)) => Increasing(e_dequeued))
    /\ [](Increasing(input_channel) /\ PipelineTakenBeforeWaiting)
    /\ [][EngineQueueStep /\ PipelineQueueStep]_vars

\* one producer sent frames 1 and 2, two workers took them in that order, and
\* the result of frame 2 is out while frame 1 is still being processed
C35_Witness ==
    /\ subject = "Engine"
    /\ SoleProducer("p1")
    /\ e_dequeued = <<1, 2>>
    /\ BagIn(1, e_workers.process)
    /\ BagIn(2, e_pushed)

\* the Pipeline's producer sent frames 1 and 2: a worker has taken frame 1,
\* frame 2 is buffered and another worker is free to take it
C35_WitnessPipeline ==
    /\ subject = "Pipeline"
    /\ input_channel = <<2>>
    /\ \E item \in BagToSet(p_workers.busy) : item.frame = 1
    /\ p_workers.recv > 0

\* ------------------------------------------------------------------------
\* StateManager: termination of update_engine_state
\* ------------------------------------------------------------------------
\* C36: update_engine_state always terminates: the call returns, releasing its
\* exclusive lock on the system state, even though it takes the snapshot while
\* the update is in progress; afterwards get_current_state, record_error and
\* the sampler can still acquire the state lock (no self-deadlock on the
\* reader/writer lock).
C36_UpdateEngineStateReturns ==
    /\ s_update_pc = "take_snapshot" => RwLockReadAvailable(state_lock)
    /\ UpdateEngineStateCalls > 0
          => /\ RwLockReadAvailable(state_lock)
             /\ RwLockWriteAvailable(state_lock)

\* ------------------------------------------------------------------------
\* Engine and Pipeline: size of the worker pools
\* ------------------------------------------------------------------------
\* C37: the number of live worker tasks of an Engine never exceeds
\* processing_threads, and of a Pipeline never exceeds max_parallel_stages,
\* after any sequence of start() and stop() calls, including start, stop,
\* start.
C37_WorkerPoolBounded ==
    /\ LiveWorkers(e_workers) <= e_config.processing_threads
    /\ PipelineLiveWorkers(p_workers) <= p_config.max_parallel_stages

\* ------------------------------------------------------------------------
\* Engine: liveness
\* ------------------------------------------------------------------------
\* C38: every frame accepted by process_frame while the engine is running is
\* eventually dequeued by a worker and eventually produces either a result on
\* the result channel or a recorded error, assuming fair scheduling, a
\* processor that returns, and a consumer that keeps calling get_result (a
\* full result queue delays but never loses or deadlocks results).
C38_EngineLiveness ==
    \A f \in Frames :
        /\ (f \in SeqToSet(processing_queue) /\ e_state.is_running)
              ~> (f \in SeqToSet(e_dequeued))
        /\ (f \in SeqToSet(e_dequeued)) ~> (BagIn(f, e_pushed) \/ f \in e_log)

\* the result queue is full with the result of frame 1 and a worker waits in
\* send with the result of frame 2, the engine running
C38_Witness ==
    /\ subject = "Engine"
    /\ e_state.is_running
    /\ result_channel = <<1>>
    /\ QueueFull(result_channel, e_config.max_batch_size)
    /\ BagIn(2, e_workers.send)

\* ------------------------------------------------------------------------
\* Engine and Pipeline: the aggregate counters of get_metrics
\* ------------------------------------------------------------------------
\* no frame is on its way through the Engine
EngineQuiescent ==
    /\ processing_queue = <<>>
    /\ \A p \in Producers : e_producers[p].pc = "idle"
    /\ InFlight(e_workers) = {}

\* PipelineMetrics as get_metrics builds it from the PipelineState
Pipeline_get_metrics ==
    [processed_frames |-> p_state.processed_frames, errors |-> p_state.errors,
     stage_metrics |-> p_state.stage_metrics, is_running |-> p_state.is_running]

\* C39: the aggregate throughput counters reported by get_metrics follow the
\* work done: Engine frames_processed equals the number of frames whose
\* processing completed successfully, and Pipeline processed_frames / errors
\* equal the number of items emitted / dropped, at every quiescent point.
C39_CountersFollowWork ==
    /\ EngineQuiescent
          => Engine_get_metrics.frames_processed = BagCardinality(e_pushed)
    /\ PipelineQuiescent
          => /\ Pipeline_get_metrics.processed_frames
                   = Len(output_channel) + Len(p_results)
             /\ Pipeline_get_metrics.errors = Cardinality(p_aborted)

\* ------------------------------------------------------------------------
\* Pipeline: per-stage metrics under concurrency
\* ------------------------------------------------------------------------
\* the StageMetrics of a stage name, zeroes while the map has no entry for it
MetricsEntry(name) ==
    IF name \in DOMAIN m_metrics THEN m_metrics[name]
    ELSE [processed |-> 0, errors |-> 0]

\* C40: per-stage metrics lose no updates under concurrency: with several
\* Pipeline workers updating the same stage's metrics in any interleaving, once
\* all workers are idle each stage's processed + errors equals the total number
\* of process invocations made on that stage, and stages with distinct names
\* never share a metrics entry.
C40_NoLostMetricsUpdate ==
    (\A w \in MetricsWorkers : m_pc[w] = "idle")
       => \A name \in StageNames :
             /\ MetricsEntry(name).processed + MetricsEntry(name).errors
                   = m_calls[<<name, TRUE>>] + m_calls[<<name, FALSE>>]
             /\ MetricsEntry(name).processed = m_calls[<<name, TRUE>>]
             /\ MetricsEntry(name).errors = m_calls[<<name, FALSE>>]

\* two workers were updating the same stage's entry at the same time, one
\* waiting for the guard the other held; all are idle now and the three
\* invocations are in the metrics, two on one entry and one on the other
C40_Witness ==
    /\ \A w \in MetricsWorkers : m_pc[w] = "idle"
    /\ m_contended
    /\ m_calls[<<"det", TRUE>>] = 2
    /\ m_calls[<<"pre", FALSE>>] = 1
    /\ MetricsEntry("det") = [processed |-> 2, errors |-> 0]
    /\ MetricsEntry("pre") = [processed |-> 0, errors |-> 1]

====
